---- MODULE Spec2Model ----
\* Model of the transaction flow of SimpleFinnBot (src/simple_bot.py):
\* text -> pending proposal -> confirmation -> ledger, with delete mode,
\* category tables, learned patterns and the 50/30/20 tracker.
\*
\* Texts are TLA+ strings handled character by character.  Two glyphs of
\* the source that are not ASCII are written in ASCII: the hryvnia sign
\* U+20B4 is "$", and the emoji in front of a menu label is "#".
\*
\* Numbers are Python floats/ints, modelled as exact fractions n/d (d > 0,
\* lowest terms) plus the special floats that float() can produce from a
\* text: inf (1/0), -inf (-1/0) and nan (0/0).
EXTENDS Integers, Sequences, FiniteSets, TLC

\* ---- Numbers ----

RECURSIVE GCD(_, _)
GCD(a, b) == IF b = 0 THEN a ELSE GCD(b, a % b)

Abs(x) == IF x < 0 THEN -x ELSE x

NaN == [n |-> 0, d |-> 0]
Inf == [n |-> 1, d |-> 0]
NegInf == [n |-> -1, d |-> 0]

Sign(k) == IF k < 0 THEN -1 ELSE IF k > 0 THEN 1 ELSE 0

\* the fraction n/d in lowest terms, d # 0
Frac(n, d) ==
  LET g == GCD(Abs(n), Abs(d))
  IN  [n |-> (Sign(d) * n) \div g, d |-> Abs(d) \div g]

Int2Num(k) == [n |-> k, d |-> 1]
Zero == Int2Num(0)

IsNaN(a) == a.d = 0 /\ a.n = 0
IsInf(a) == a.d = 0 /\ a.n # 0
IsFinite(a) == a.d > 0

\* Python float comparison: every comparison with nan is False
NumLt(a, b) ==
  IF IsNaN(a) \/ IsNaN(b) THEN FALSE
  ELSE IF a.d = 0 /\ b.d = 0 THEN a.n < b.n
  ELSE IF a.d = 0 THEN a.n < 0
  ELSE IF b.d = 0 THEN b.n > 0
  ELSE a.n * b.d < b.n * a.d

NumLe(a, b) ==
  IF IsNaN(a) \/ IsNaN(b) THEN FALSE
  ELSE IF a.d = 0 /\ b.d = 0 THEN a.n <= b.n
  ELSE IF a.d = 0 THEN a.n < 0
  ELSE IF b.d = 0 THEN b.n > 0
  ELSE a.n * b.d <= b.n * a.d

NumGt(a, b) == NumLt(b, a)
NumGe(a, b) == NumLe(b, a)

NumAdd(a, b) ==
  IF IsNaN(a) \/ IsNaN(b) THEN NaN
  ELSE IF a.d = 0 /\ b.d = 0 THEN (IF a.n = b.n THEN a ELSE NaN)
  ELSE IF a.d = 0 THEN a
  ELSE IF b.d = 0 THEN b
  ELSE Frac(a.n * b.d + b.n * a.d, a.d * b.d)

NumNeg(a) == [n |-> -a.n, d |-> a.d]
NumSub(a, b) == NumAdd(a, NumNeg(b))
NumMul(a, b) ==
  IF IsNaN(a) \/ IsNaN(b) THEN NaN
  ELSE IF a.d = 0 \/ b.d = 0
       THEN [n |-> Sign(a.n) * Sign(b.n), d |-> 0]
  ELSE Frac(a.n * b.n, a.d * b.d)
\* a / b for b # 0 (the callers test b first)
NumDiv(a, b) ==
  IF IsNaN(a) \/ IsNaN(b) THEN NaN
  ELSE IF a.d = 0 THEN (IF b.d = 0 THEN NaN ELSE [n |-> Sign(a.n) * Sign(b.n), d |-> 0])
  ELSE IF b.d = 0 THEN Zero
  ELSE Frac(a.n * b.d, a.d * b.n)
\* a // b on finite numbers, b # 0
NumFloorDiv(a, b) ==
  LET q == Frac(a.n * b.d, a.d * b.n) IN Int2Num(q.n \div q.d)
NumAbs(a) == [n |-> Abs(a.n), d |-> a.d]

\* ---- Characters and strings (Python str operations) ----

Ch(s, i) == SubSeq(s, i, i)
From(s, i) == SubSeq(s, i, Len(s))

DigitChars == "0123456789"
LowerAZ == "abcdefghijklmnopqrstuvwxyz"
UpperAZ == "ABCDEFGHIJKLMNOPQRSTUVWXYZ"
Digits == {Ch(DigitChars, k) : k \in 1..10}
LowerSet == {Ch(LowerAZ, k) : k \in 1..26}
UpperSet == {Ch(UpperAZ, k) : k \in 1..26}

IsDigit(c) == c \in Digits
IsAlpha(c) == c \in LowerSet \/ c \in UpperSet
\* \w of the re module, on the model's characters
IsWordChar(c) == IsDigit(c) \/ IsAlpha(c) \/ c = "_"
IsSpace(c) == c = " "
DigitVal(c) == (CHOOSE k \in 1..10 : Ch(DigitChars, k) = c) - 1
DigitChar(k) == Ch(DigitChars, k + 1)

\* str.lower()
LowerCh(c) ==
  IF c \in UpperSet
  THEN Ch(LowerAZ, CHOOSE k \in 1..26 : Ch(UpperAZ, k) = c)
  ELSE c
RECURSIVE Lower(_)
Lower(s) == IF s = "" THEN "" ELSE LowerCh(Ch(s, 1)) \o Lower(From(s, 2))

\* sub in s
Contains(s, sub) ==
  \E i \in 1..(Len(s) - Len(sub) + 1) : SubSeq(s, i, i + Len(sub) - 1) = sub
\* s.startswith(p)
StartsWith(s, p) == Len(s) >= Len(p) /\ SubSeq(s, 1, Len(p)) = p

\* s.strip()
RECURSIVE LStrip(_)
LStrip(s) == IF s # "" /\ IsSpace(Ch(s, 1)) THEN LStrip(From(s, 2)) ELSE s
RECURSIVE RStrip(_)
RStrip(s) ==
  IF s # "" /\ IsSpace(Ch(s, Len(s))) THEN RStrip(SubSeq(s, 1, Len(s) - 1)) ELSE s
Strip(s) == RStrip(LStrip(s))

\* s.replace(old, new), old non-empty: leftmost non-overlapping occurrences
RECURSIVE Replace(_, _, _)
Replace(s, old, new) ==
  IF Len(s) < Len(old) THEN s
  ELSE IF SubSeq(s, 1, Len(old)) = old
       THEN new \o Replace(From(s, Len(old) + 1), old, new)
       ELSE Ch(s, 1) \o Replace(From(s, 2), old, new)

\* any(char.isdigit() for char in s)
HasDigit(s) == \E i \in 1..Len(s) : IsDigit(Ch(s, i))
\* s.isdigit()
IsDigitStr(s) == s # "" /\ \A i \in 1..Len(s) : IsDigit(Ch(s, i))

\* first position >= i of s that does not hold a digit (Len(s)+1 if none)
RECURSIVE DigitRunEnd(_, _)
DigitRunEnd(s, i) ==
  IF i <= Len(s) /\ IsDigit(Ch(s, i)) THEN DigitRunEnd(s, i + 1) ELSE i
\* first position >= i of s that does not hold a letter
RECURSIVE AlphaRunEnd(_, _)
AlphaRunEnd(s, i) ==
  IF i <= Len(s) /\ IsAlpha(Ch(s, i)) THEN AlphaRunEnd(s, i + 1) ELSE i

\* value of the digit string s[i..j-1] read as a decimal integer
RECURSIVE DigitsVal(_, _, _)
DigitsVal(s, i, j) ==
  IF j <= i THEN 0 ELSE 10 * DigitsVal(s, i, j - 1) + DigitVal(Ch(s, j - 1))
RECURSIVE Pow10(_)
Pow10(k) == IF k = 0 THEN 1 ELSE 10 * Pow10(k - 1)

\* \b of the re module at the gap before position i of s
WordBoundary(s, i) ==
  LET before == i > 1 /\ IsWordChar(Ch(s, i - 1))
      after  == i <= Len(s) /\ IsWordChar(Ch(s, i))
  IN  before # after

\* str(k) for an integer k >= 0
RECURSIVE IntStr(_)
IntStr(k) == IF k < 10 THEN DigitChar(k) ELSE IntStr(k \div 10) \o DigitChar(k % 10)
Pad3(k) == DigitChar(k \div 100) \o DigitChar((k \div 10) % 10) \o DigitChar(k % 10)
RECURSIVE GroupStr(_)
GroupStr(k) ==
  IF k < 1000 THEN IntStr(k) ELSE GroupStr(k \div 1000) \o "," \o Pad3(k % 1000)

\* round(x) of a finite x >= 0 as float formatting does it: half to even
RoundHalfEven(x) ==
  LET q == x.n \div x.d
      r == x.n % x.d
  IN  IF 2 * r < x.d THEN q
      ELSE IF 2 * r > x.d THEN q + 1
      ELSE IF q % 2 = 0 THEN q ELSE q + 1

\* f"{amount:,.0f}" for amount >= 0, inf or nan
Format0f(x) ==
  IF IsNaN(x) THEN "nan"
  ELSE IF IsInf(x) THEN "inf"
  ELSE GroupStr(RoundHalfEven(x))

\* ---- eval() of a whitelisted arithmetic expression ----
\* Python's grammar on the tokens NUMBER + - * / // ( ) : a parse result is
\* [ok, v, i] with i the first unread position.  Every failure of eval()
\* or of the following abs() (SyntaxError, ZeroDivisionError, TypeError of
\* "()" or of a call such as "5(2)") is ok = FALSE.  The power operator
\* "**" is not tokenised: no text of the model contains "*" (a "*" only
\* comes from the percent rewriting, which puts "(" behind it).

ParseFail == [ok |-> FALSE, v |-> Zero, i |-> 0]
ParseOk(v, i) == [ok |-> TRUE, v |-> v, i |-> i]

\* a NUMBER token at position i (a digit or "." stands there)
ParseNumber(s, i) ==
  LET j == DigitRunEnd(s, i) IN
  IF j <= Len(s) /\ Ch(s, j) = "."
  THEN LET k == DigitRunEnd(s, j + 1)
           scale == Pow10(k - j - 1)
       IN  IF j = i /\ k = j + 1 THEN ParseFail
           ELSE ParseOk(Frac(DigitsVal(s, i, j) * scale + DigitsVal(s, j + 1, k), scale), k)
  ELSE IF j - i > 1 /\ Ch(s, i) = "0" /\ DigitsVal(s, i, j) # 0
       THEN ParseFail   \* leading zeros in a decimal integer literal
       ELSE ParseOk(Int2Num(DigitsVal(s, i, j)), j)


\* One rule of the grammar applied at position i of s; acc is the value to
\* the left of i for the rules that continue an expression or a term.
\*   expr: term expr_rest            expr_rest: (("+" | "-") term)*
\*   term: factor term_rest          term_rest: (("*" | "/" | "//") factor)*
\*   factor: ("+" | "-") factor | atom      atom: "(" expr ")" | NUMBER
RECURSIVE Parse(_, _, _, _)
Parse(rule, s, acc, i) ==
  LET c == IF i <= Len(s) THEN Ch(s, i) ELSE ""
      floordiv == i < Len(s) /\ c = "/" /\ Ch(s, i + 1) = "/"
      Expr(r) == IF r.ok THEN Parse("expr_rest", s, r.v, r.i) ELSE ParseFail
      ExprRest(r) ==
        IF ~r.ok THEN ParseFail
        ELSE Parse("expr_rest", s,
                   IF c = "+" THEN NumAdd(acc, r.v) ELSE NumSub(acc, r.v), r.i)
      Term(r) == IF r.ok THEN Parse("term_rest", s, r.v, r.i) ELSE ParseFail
      TermRest(r) ==
        IF ~r.ok THEN ParseFail
        ELSE IF c = "*" THEN Parse("term_rest", s, NumMul(acc, r.v), r.i)
        ELSE IF r.v = Zero THEN ParseFail   \* ZeroDivisionError
        ELSE Parse("term_rest", s,
                   IF floordiv THEN NumFloorDiv(acc, r.v) ELSE NumDiv(acc, r.v), r.i)
      Negated(r) == IF r.ok THEN ParseOk(NumNeg(r.v), r.i) ELSE ParseFail
      Paren(r) ==
        IF r.ok /\ r.i <= Len(s) /\ Ch(s, r.i) = ")"
        THEN ParseOk(r.v, r.i + 1) ELSE ParseFail
  IN  CASE rule = "expr" -> Expr(Parse("term", s, acc, i))
        [] rule = "expr_rest" ->
             IF c \in {"+", "-"} THEN ExprRest(Parse("term", s, acc, i + 1))
             ELSE ParseOk(acc, i)
        [] rule = "term" -> Term(Parse("factor", s, acc, i))
        [] rule = "term_rest" ->
             IF c \in {"*", "/"}
             THEN TermRest(Parse("factor", s, acc, IF floordiv THEN i + 2 ELSE i + 1))
             ELSE ParseOk(acc, i)
        [] rule = "factor" ->
             IF c = "+" THEN Parse("factor", s, acc, i + 1)
             ELSE IF c = "-" THEN Negated(Parse("factor", s, acc, i + 1))
             ELSE Parse("atom", s, acc, i)
        [] OTHER ->
             IF c = "(" THEN Paren(Parse("expr", s, acc, i + 1))
             ELSE IF c # "" /\ (IsDigit(c) \/ c = ".") THEN ParseNumber(s, i)
             ELSE ParseFail

\* eval(expression): the whole string must be one expression
PyEval(s) ==
  LET Whole(r) == IF r.ok /\ r.i = Len(s) + 1 THEN r ELSE ParseFail
  IN  Whole(Parse("expr", s, Zero, 1))

\* ---- calculate_expression ----

\* re.sub(r'(\d+(?:\.\d+)?)%', r'*(\1/100)', s): length of the match that
\* starts at position 1 of s, 0 if there is none
PercentMatchLen(s) ==
  IF s = "" \/ ~IsDigit(Ch(s, 1)) THEN 0
  ELSE LET j == DigitRunEnd(s, 1) IN
       IF j < Len(s) /\ Ch(s, j) = "." /\ IsDigit(Ch(s, j + 1))
          /\ DigitRunEnd(s, j + 1) <= Len(s)
          /\ Ch(s, DigitRunEnd(s, j + 1)) = "%"
       THEN DigitRunEnd(s, j + 1)
       ELSE IF j <= Len(s) /\ Ch(s, j) = "%" THEN j ELSE 0

RECURSIVE PercentSub(_)
PercentSub(s) ==
  IF s = "" THEN ""
  ELSE LET m == PercentMatchLen(s) IN
       IF m > 0
       THEN "*(" \o SubSeq(s, 1, m - 1) \o "/100)" \o PercentSub(From(s, m + 1))
       ELSE Ch(s, 1) \o PercentSub(From(s, 2))

\* the four chained replace() calls of line 319
CollapseSigns(s) ==
  Replace(Replace(Replace(Replace(s, "++", "+"), "--", "+"), "+-", "-"), "-+", "-")

\* the characters of the class [\d+\-*/().\s]
WhitelistChars == Digits \cup {"+", "-", "*", "/", "(", ")", ".", " "}
\* a faulty variant of Whitelisted: letters pass the check
WhitelistedLetters(s) ==
  s # "" /\ \A i \in 1..Len(s) : Ch(s, i) \in WhitelistChars \/ IsAlpha(Ch(s, i))
\* re.match(r'^[\d+\-*/().\s]+$', s)
Whitelisted(s) == s # "" /\ \A i \in 1..Len(s) : Ch(s, i) \in WhitelistChars

\* a faulty variant of ExprKind: the income rule before the debt rule
ExprKindIncomeFirst(text) ==
  IF Contains(text, "++") THEN "savings"
  ELSE IF Contains(text, "+-") THEN "debt_return"
  ELSE IF Contains(text, "-+") THEN "savings_withdraw"
  ELSE IF Contains(text, "+") THEN "income"
  ELSE IF StartsWith(Strip(text), "-") THEN "debt"
  ELSE "expense"

\* lines 329-346: the kind and its symbol, from the original text
ExprKind(text) ==
  IF Contains(text, "++") THEN "savings"
  ELSE IF Contains(text, "+-") THEN "debt_return"
  ELSE IF Contains(text, "-+") THEN "savings_withdraw"
  ELSE IF StartsWith(Strip(text), "-") /\ ~Contains(text, "-+") THEN "debt"
  ELSE IF Contains(text, "+")
          /\ ~(Contains(text, "++") \/ Contains(text, "+-") \/ Contains(text, "-+"))
       THEN "income"
  ELSE "expense"

KindSymbol(kind) ==
  CASE kind = "savings" -> "++"
    [] kind = "debt_return" -> "+-"
    [] kind = "savings_withdraw" -> "-+"
    [] kind = "debt" -> "-"
    [] kind = "income" -> "+"
    [] OTHER -> "-"

\* calculate_expression(text): [ok, amount, type, symbol] or [ok = FALSE, msg]
calculate_expression(text) ==
  LET Result(result, kind) ==
        IF ~result.ok
        THEN [ok |-> FALSE, msg |-> "calculation_error"]
        ELSE [ok |-> TRUE, amount |-> NumAbs(result.v), type |-> kind,
              symbol |-> KindSymbol(kind)]
      Checked(expression) ==
        IF ~Whitelisted(expression)
        THEN [ok |-> FALSE, msg |-> "invalid_characters"]
        ELSE Result(PyEval(expression), ExprKind(text))
  IN  Checked(CollapseSigns(PercentSub(Lower(Replace(text, " ", "")))))

\* ---- float(s) ----
\* [ok, v]; ok = FALSE is ValueError.  Covered forms: optional sign, then
\* inf / infinity / nan in any case, or a decimal with optional fraction and
\* exponent.  (Digit-group underscores are not modelled: "_" is not a
\* character of any text of the model.)

FloatFail == [ok |-> FALSE, v |-> Zero]

\* digits [ "." digits ] | "." digits, then optionally e [sign] digits
FloatDecimal(b) ==
  LET \* the exponent digits b[p..q-1] behind the mantissa
      Exponent(mant, p, q, negative) ==
        IF q = p \/ q # Len(b) + 1 THEN FloatFail
        ELSE IF negative
             THEN [ok |-> TRUE, v |-> NumDiv(mant, Int2Num(Pow10(DigitsVal(b, p, q))))]
             ELSE [ok |-> TRUE, v |-> NumMul(mant, Int2Num(Pow10(DigitsVal(b, p, q))))]
      Signed(mant, k, hasSign) ==
        Exponent(mant, IF hasSign THEN k + 2 ELSE k + 1,
                 DigitRunEnd(b, IF hasSign THEN k + 2 ELSE k + 1),
                 hasSign /\ Ch(b, k + 1) = "-")
      \* what follows the mantissa, which ends before position k
      Rest(mant, k) ==
        IF k = Len(b) + 1 THEN [ok |-> TRUE, v |-> mant]
        ELSE IF Ch(b, k) \in {"e", "E"}
             THEN Signed(mant, k, k < Len(b) /\ Ch(b, k + 1) \in {"+", "-"})
        ELSE FloatFail
      Mantissa(j, k, fracLen) ==
        IF j = 1 /\ fracLen = 0 THEN FloatFail
        ELSE Rest(Frac(DigitsVal(b, 1, j) * Pow10(fracLen)
                         + (IF k > j THEN DigitsVal(b, j + 1, k) ELSE 0),
                       Pow10(fracLen)),
                  k)
      Fraction(j, k) == Mantissa(j, k, IF k > j THEN k - j - 1 ELSE 0)
      Whole(j) ==
        Fraction(j, IF j <= Len(b) /\ Ch(b, j) = "." THEN DigitRunEnd(b, j + 1) ELSE j)
  IN  Whole(DigitRunEnd(b, 1))

PyFloat(s0) ==
  LET Negate(r, neg) == IF r.ok /\ neg THEN [ok |-> TRUE, v |-> NumNeg(r.v)] ELSE r
      Body(b) ==
        IF b \in {"inf", "infinity"} THEN [ok |-> TRUE, v |-> Inf]
        ELSE IF b = "nan" THEN [ok |-> TRUE, v |-> NaN]
        ELSE FloatDecimal(b)
      Signed(s, signed) ==
        Negate(Body(Lower(IF signed THEN From(s, 2) ELSE s)), signed /\ Ch(s, 1) = "-")
      Stripped(s) == Signed(s, s # "" /\ Ch(s, 1) \in {"+", "-"})
  IN  Stripped(Strip(s0))

\* ---- extract_amount ----

\* value of digits [.,] digits: s[i..r-1] and the n digits after position r
DecimalVal(s, i, r, n) ==
  Frac(DigitsVal(s, i, r) * Pow10(n) + DigitsVal(s, r + 1, r + 1 + n), Pow10(n))

RECURSIVE SignRunEnd(_, _)
SignRunEnd(s, i) ==
  IF i <= Len(s) /\ Ch(s, i) \in {"+", "-"} THEN SignRunEnd(s, i + 1) ELSE i
RECURSIVE SpaceRunEnd(_, _)
SpaceRunEnd(s, i) ==
  IF i <= Len(s) /\ IsSpace(Ch(s, i)) THEN SpaceRunEnd(s, i + 1) ELSE i

NoMatch == [ok |-> FALSE, v |-> Zero, e |-> 0]

\* [+-]+\s*(\d+[.,]\d{1,2}) matched at position i; e is the end of the match
MatchSigned(s, i) ==
  LET Fraction(q, r, n) ==
        IF r > q /\ r <= Len(s) /\ Ch(s, r) \in {".", ","} /\ n >= 1
        THEN [ok |-> TRUE, v |-> DecimalVal(s, q, r, n), e |-> r + 1 + n]
        ELSE NoMatch
      Capped(q, r, f) == Fraction(q, r, IF f >= 2 THEN 2 ELSE f)
      Whole(q, r) == Capped(q, r, DigitRunEnd(s, r + 1) - (r + 1))
      Spaces(q) == Whole(q, DigitRunEnd(s, q))
      Signs(p) == IF p > i THEN Spaces(SpaceRunEnd(s, p)) ELSE NoMatch
  IN  Signs(SignRunEnd(s, i))

\* \b(\d+[.,]\d{1,2})\b matched at position i
MatchBare(s, i) ==
  LET Fraction(r, f) ==
        IF WordBoundary(s, i) /\ r > i /\ r <= Len(s) /\ Ch(s, r) \in {".", ","}
           /\ f \in {1, 2} /\ WordBoundary(s, r + 1 + f)
        THEN [ok |-> TRUE, v |-> DecimalVal(s, i, r, f), e |-> r + 1 + f]
        ELSE NoMatch
      Whole(r) == Fraction(r, DigitRunEnd(s, r + 1) - (r + 1))
  IN  Whole(DigitRunEnd(s, i))

\* re.findall of line 578, from position i on: the values of the matches
RECURSIVE FindDecimals(_, _)
FindDecimals(s, i) ==
  LET Either(a, b) ==
        IF a.ok THEN <<a.v>> \o FindDecimals(s, a.e)
        ELSE IF b.ok THEN <<b.v>> \o FindDecimals(s, b.e)
        ELSE FindDecimals(s, i + 1)
  IN  IF i > Len(s) THEN <<>> ELSE Either(MatchSigned(s, i), MatchBare(s, i))

\* re.findall(r'\b(\d+)\b', s) from position i on
RECURSIVE FindWholes(_, _)
FindWholes(s, i) ==
  IF i > Len(s) THEN <<>>
  ELSE LET r == DigitRunEnd(s, i) IN
       IF WordBoundary(s, i) /\ r > i /\ WordBoundary(s, r)
       THEN <<Int2Num(DigitsVal(s, i, r))>> \o FindWholes(s, r)
       ELSE FindWholes(s, i + 1)

\* max() of a non-empty sequence of finite numbers
RECURSIVE MaxOf(_)
MaxOf(q) ==
  IF Len(q) = 1 THEN q[1]
  ELSE LET m == MaxOf(Tail(q)) IN IF NumLt(q[1], m) THEN m ELSE q[1]

\* extract_amount(text): found = FALSE is the amount None
extract_amount(text) ==
  LET is_savings == Contains(text, "++")
      is_debt_return == Contains(text, "+-")
      is_savings_withdraw == Contains(text, "-+")
      is_income == Contains(text, "+") /\ ~is_savings /\ ~is_debt_return
                     /\ ~is_savings_withdraw
      is_debt == StartsWith(Strip(text), "-") /\ ~is_savings_withdraw
      Found(decimals, clean, wholes, flags) ==
        IF decimals # <<>> THEN [found |-> TRUE, amount |-> MaxOf(decimals), flags |-> flags]
        ELSE IF clean.ok THEN [found |-> TRUE, amount |-> clean.v, flags |-> flags]
        ELSE IF wholes # <<>> THEN [found |-> TRUE, amount |-> MaxOf(wholes), flags |-> flags]
        ELSE [found |-> FALSE, amount |-> Zero, flags |-> flags]
  IN  Found(FindDecimals(text, 1),
            PyFloat(Replace(Replace(Strip(text), "+", ""), "-", "")),
            FindWholes(text, 1),
            [is_income |-> is_income, is_debt |-> is_debt,
             is_savings |-> is_savings, is_debt_return |-> is_debt_return,
             is_savings_withdraw |-> is_savings_withdraw])

\* ---- Program constants (SimpleFinnBot.__init__) ----

protected_savings_categories == <<"Crypto", "Bank", "Personal", "Investment">>

\* category_mapping: bucket -> category names, in dict order
category_mapping ==
  << [bucket |-> "needs",
      names |-> <<"Rent", "Mortgage", "Groceries", "Utilities", "Electricity",
                  "Water", "Gas", "Internet", "Phone", "Transport", "Fuel",
                  "Public Transport", "Car Maintenance", "Healthcare",
                  "Insurance", "Medicine", "Doctor">>],
     [bucket |-> "wants",
      names |-> <<"Shopping", "Restaurants", "Cafe", "Dining", "Entertainment",
                  "Movies", "Concerts", "Hobbies", "Travel", "Vacation",
                  "Luxury", "Electronics", "Clothing", "Beauty", "Gifts">>],
     [bucket |-> "future",
      names |-> <<"Savings", "Crypto", "Bank", "Personal", "Investment",
                  "Stock", "Debt Return", "Education", "Retirement",
                  "Emergency Fund">>] >>

Buckets == {"needs", "wants", "future"}

\* the six kinds, in the order of the delete list (transactions_by_type)
KindOrder == <<"income", "expense", "savings", "debt", "debt_return", "savings_withdraw">>
Kinds == {KindOrder[k] : k \in 1..Len(KindOrder)}

\* menu labels and commands compared with == in process_message
CMD_START == "/start"
CMD_LANGUAGE == "# Language"
CMD_RESTART == "# Restart Bot"
CMD_INCOME == "/income"
CMD_HELP == "/help"
CMD_SUMMARY == "# Financial Summary"
CMD_STATUS == "# 50/30/20 Status"
CMD_DELETE == "# Delete Transaction"
CMD_CATEGORIES == "# Manage Categories"

HRYVNIA == "$"

\* ---- categorize_transaction ----

\* cat.lower() for every name of category_mapping
LowerNames ==
  [k \in 1..Len(category_mapping) |->
     [j \in 1..Len(category_mapping[k].names) |-> Lower(category_mapping[k].names[j])]]

\* first bucket (in mapping order) one of whose names occurs in s; "" if none
RECURSIVE BucketOf(_, _)
BucketOf(s, k) ==
  IF k > Len(category_mapping) THEN ""
  ELSE IF \E j \in 1..Len(LowerNames[k]) : Contains(s, LowerNames[k][j])
       THEN category_mapping[k].bucket
       ELSE BucketOf(s, k + 1)

\* a faulty variant of categorize_transaction: only the description is
\* looked at
categorize_by_description(category_name, description) ==
  LET byDesc == BucketOf(Lower(description), 1)
  IN  IF byDesc # "" THEN byDesc ELSE "wants"

categorize_transaction(category_name, description) ==
  LET byName == BucketOf(Lower(category_name), 1)
      byDesc == BucketOf(Lower(description), 1)
  IN  IF byName # "" THEN byName
      ELSE IF byDesc # "" THEN byDesc
      ELSE "wants"

\* ---- 50/30/20 tracker (pure parts) ----

ZeroTotals == [needs |-> Zero, wants |-> Zero, future |-> Zero, income |-> Zero]
ZeroPct == [needs |-> Zero, wants |-> Zero, future |-> Zero]
Hundred == Int2Num(100)

\* calculate_503020_percentages: the percentages of one totals record
calculate_503020_percentages(totals) ==
  IF NumGt(totals.income, Zero)
  THEN [needs  |-> NumMul(NumDiv(totals.needs, totals.income), Hundred),
        wants  |-> NumMul(NumDiv(totals.wants, totals.income), Hundred),
        future |-> NumMul(NumDiv(totals.future, totals.income), Hundred)]
  ELSE ZeroPct

\* a faulty variant of LimitNotices: the "approaching" notice of the needs
\* does not look at the previous percentage
LimitNoticesRepeating(current, previous) ==
  (IF NumLe(Int2Num(45), current.needs) /\ NumLt(current.needs, Int2Num(50))
   THEN <<"needs_approaching">>
   ELSE IF NumGe(current.needs, Int2Num(50)) /\ NumLt(previous.needs, Int2Num(50))
   THEN <<"needs_over">> ELSE <<>>)
  \o
  (IF NumLe(Int2Num(27), current.wants) /\ NumLt(current.wants, Int2Num(30))
      /\ NumLt(previous.wants, Int2Num(27))
   THEN <<"wants_approaching">>
   ELSE IF NumGe(current.wants, Int2Num(30)) /\ NumLt(previous.wants, Int2Num(30))
   THEN <<"wants_over">> ELSE <<>>)
  \o
  (IF NumGe(current.future, Int2Num(20)) /\ NumLt(previous.future, Int2Num(20))
   THEN <<"future_on_target">>
   ELSE IF NumGe(current.future, Int2Num(25)) /\ NumLt(previous.future, Int2Num(25))
   THEN <<"future_excellent">> ELSE <<>>)

\* check_503020_limits: the notices for current against previous
LimitNotices(current, previous) ==
  (IF NumLe(Int2Num(45), current.needs) /\ NumLt(current.needs, Int2Num(50))
      /\ NumLt(previous.needs, Int2Num(45))
   THEN <<"needs_approaching">>
   ELSE IF NumGe(current.needs, Int2Num(50)) /\ NumLt(previous.needs, Int2Num(50))
   THEN <<"needs_over">> ELSE <<>>)
  \o
  (IF NumLe(Int2Num(27), current.wants) /\ NumLt(current.wants, Int2Num(30))
      /\ NumLt(previous.wants, Int2Num(27))
   THEN <<"wants_approaching">>
   ELSE IF NumGe(current.wants, Int2Num(30)) /\ NumLt(previous.wants, Int2Num(30))
   THEN <<"wants_over">> ELSE <<>>)
  \o
  (IF NumGe(current.future, Int2Num(20)) /\ NumLt(previous.future, Int2Num(20))
   THEN <<"future_on_target">>
   ELSE IF NumGe(current.future, Int2Num(25)) /\ NumLt(previous.future, Int2Num(25))
   THEN <<"future_excellent">> ELSE <<>>)

\* re.findall(r'\b[a-zA-Z]{3,}\b', s) from position i on
RECURSIVE FindWords(_, _)
FindWords(s, i) ==
  IF i > Len(s) THEN <<>>
  ELSE LET r == AlphaRunEnd(s, i) IN
       IF WordBoundary(s, i) /\ r - i >= 3 /\ WordBoundary(s, r)
       THEN <<SubSeq(s, i, r - 1)>> \o FindWords(s, r)
       ELSE FindWords(s, i + 1)

\* ---- process_message: the analysis of a text ----

Operators == {"+", "-", "*", "/", "%"}
HasOperator(text) == \E i \in 1..Len(text) : Ch(text, i) \in Operators

\* lines 1320-1372: the kind decided from the flags of extract_amount;
\* "crash" is the savings branch, which leaves category and
\* transaction_type unassigned (UnboundLocalError at line 1375)
FlagKind(f) ==
  IF f.is_debt_return THEN "debt_return"
  ELSE IF f.is_savings_withdraw THEN "savings_withdraw"
  ELSE IF f.is_debt THEN "debt"
  ELSE IF f.is_savings THEN "crash"
  ELSE IF f.is_income THEN "income"
  ELSE "expense"

FixedCategory(kind) ==
  CASE kind = "debt_return" -> "Debt Return"
    [] kind = "savings_withdraw" -> "Savings Withdrawal"
    [] kind = "debt" -> "Debt"
    [] kind = "income" -> "Salary"
    [] OTHER -> ""

\* the analysis of a text that yields no proposal and no error
NoAnalysis ==
  [via |-> "none", amount |-> Zero, text |-> "", category |-> "", type |-> "", msg |-> ""]

\* lines 1246-1450, the part that does not depend on the bot's state:
\*   via = "calc"    a proposal from calculate_expression (lines 1254-1259)
\*   via = "error"   calculate_expression failed, msg is sent (line 1314)
\*   via = "extract" a proposal from extract_amount (lines 1375-1380);
\*                   its category is guessed when the kind is expense
\*   via = "crash"   the savings branch of lines 1331-1364
\*   via = "none"    no amount found (line 1437)
Analyse(text) ==
  LET Calculated(calc) ==
        IF calc.ok
        THEN [NoAnalysis EXCEPT !.via = "calc", !.amount = calc.amount,
                !.text = text \o " = " \o calc.symbol \o Format0f(calc.amount) \o HRYVNIA,
                !.category = IF calc.type = "income" THEN "Salary" ELSE "Other",
                !.type = calc.type]
        ELSE [NoAnalysis EXCEPT !.via = "error", !.msg = calc.msg]
      Flagged(amount, kind) ==
        IF kind = "crash" THEN [NoAnalysis EXCEPT !.via = "crash"]
        ELSE [NoAnalysis EXCEPT !.via = "extract", !.amount = amount, !.text = text,
                !.category = FixedCategory(kind), !.type = kind]
      Extracted(ext) ==
        IF ~ext.found THEN NoAnalysis ELSE Flagged(ext.amount, FlagKind(ext.flags))
  IN  IF HasOperator(text) /\ HasDigit(text)
      THEN Calculated(calculate_expression(text))
      ELSE Extracted(extract_amount(text))

\* text[1:] is free of digits (lines 1169 and 1180)
CategoryCommand(text, sign) ==
  StartsWith(text, sign) /\ Len(text) > 1 /\ ~HasDigit(From(text, 2))

\* ---- Inputs and bounds ----

\* texts the first chat sends in the sequential specification
Texts == {"150 lunch", "+5000", "abc", "5/0", "5+a", CMD_DELETE, "1", "0"}
\* callback data of the buttons the first chat presses there
CallbackData == {"cat_Food", "confirm_restart"}
\* the second chat sends one text and presses one button
OtherTexts == {"150 lunch"}
OtherData == {"cat_Food"}
\* texts and buttons of the specification with interleaved handlers
ConcTexts == {"150 lunch", "+5000"}
ConcData == {"cat_Food"}

\* texts and buttons of the specification of the budget tracker: an income
\* of 50 and an expense of 25, confirmed as a need or as savings
BudgetTexts == {"+50", "25 lunch"}
BudgetData == {"cat_Rent", "cat_Savings"}
OtherBudgetTexts == {"25 taxi"}
OtherBudgetData == {"cat_Rent"}
\* at most MaxBudgetProposals proposals are written in one behaviour of it
MaxBudgetProposals == 4

\* texts and buttons of the specification of the confirmed incomes
IncomeTexts == {"+5000", "+100000", "+100001", "++50000"}
IncomeData == {"cat_Salary", "cat_Bank"}

\* texts and buttons of the specification of the category tables: category
\* commands and expenses
CategoryTexts ==
  {"+Crypto", "-Crypto", "-Other", "- Bank", "-Cafe",
   "20 lunch", "20 taxi lunch", "20 lunch taxi"}
CategoryData == {"cat_Food", "cat_Transport"}

\* texts and buttons of the specification of the delete mode: replies that
\* are numbers of the list, numbers that are not, and other texts
DeleteTexts == {"150 lunch", "+5000", CMD_DELETE, "0", "1", "2", "00", "abc"}
DeleteData == {"cat_Food"}

\* texts and buttons of the specification of the savings: a saving of 300
\* and two expenses, the protected savings categories, a need and a want
SavingsTexts == {"++300", "45 rent", "27 cafe"}
SavingsData ==
  {"cat_Crypto", "cat_Bank", "cat_Personal", "cat_Investment", "cat_Rent", "cat_Shopping"}

\* texts and buttons of the specification of the notices: with an income
\* of 100 the expenses reach 45, 50, 27 and 30 percent of it
NoticeTexts == {"+100", "45 rent", "5 bus", "27 cafe", "3 gum"}
NoticeData == {"cat_Salary", "cat_Rent", "cat_Shopping", "cat_Savings"}

\* texts of the specification with interleaved replies in delete mode
ConcDeleteTexts == {"150 lunch", "+5000", CMD_DELETE, "0", "1", "2"}

\* texts and buttons of the specification of the other events: an expense,
\* a number, a text without amount, a failing expression, menu commands and
\* category commands
EventTexts ==
  {"150 lunch", "700", "abc", "5/0", CMD_INCOME, CMD_HELP, CMD_DELETE,
   "+Cafe", "-Cafe"}
EventData == {"cat_Food", "confirm_restart"}

\* texts and buttons of the specification of two chats: the first sends an
\* expense, the delete command and a reply, the second the expense
UsersTexts == {"20 lunch", CMD_DELETE, "1"}
OtherUsersTexts == {"20 lunch"}
UsersData == {"cat_Food"}

\* at most MaxProposals proposals are written in one sequential behaviour
MaxProposals == 3
\* at most MaxConcProposals in one behaviour with interleaved handlers
MaxConcProposals == 2
\* the clock runs through the months FirstMonth..MaxMonth
MaxMonth == 2

\* every text made of at most MaxTokens of the tokens
MaxTokens == 4
Tokens == {"3", "5", "+", "-", " ", "a", "nan"}
RECURSIVE TextsOfLen(_)
TextsOfLen(k) ==
  IF k = 0 THEN {""}
  ELSE {s \o c : s \in TextsOfLen(k - 1), c \in Tokens}
AllTexts == UNION {TextsOfLen(k) : k \in 1..MaxTokens}

\* ---- Memoised text functions ----
\* The handlers apply the functions above to the same few texts in every
\* state; for those texts each is evaluated once and looked up afterwards.

\* what process_message computes from the text alone
TextRecord(t) ==
  [lower |-> Lower(t),
   isdigit |-> IsDigitStr(t),
   int |-> IF IsDigitStr(t) THEN DigitsVal(t, 1, Len(t) + 1) ELSE 0,
   float |-> PyFloat(t),
   rest |-> Strip(From(t, 2)),
   add |-> CategoryCommand(t, "+"),
   remove |-> CategoryCommand(t, "-"),
   analysis |-> Analyse(t)]

MemoTexts ==
  Texts \cup OtherTexts \cup ConcTexts \cup BudgetTexts \cup OtherBudgetTexts
  \cup IncomeTexts \cup CategoryTexts \cup DeleteTexts
  \cup SavingsTexts \cup NoticeTexts \cup ConcDeleteTexts \cup EventTexts
  \cup UsersTexts
TextTable == [t \in MemoTexts |-> TextRecord(t)]
TextInfo(t) == IF t \in MemoTexts THEN TextTable[t] ELSE TextRecord(t)

\* what process_callback computes from the callback data alone
DataRecord(d) ==
  [start_lang |-> StartsWith(d, "start_lang_"),
   cat |-> StartsWith(d, "cat_"),
   lang |-> StartsWith(d, "lang_"),
   from5 |-> From(d, 5), from6 |-> From(d, 6), from12 |-> From(d, 12)]

\* ---- learning (process_callback, lines 1530-1534) ----
\* a faulty variant of DictSet: a word that has a category keeps it
DictSetOnce(d, word, category) ==
  IF \E k \in 1..Len(d) : d[k].word = word THEN d
  ELSE Append(d, [word |-> word, category |-> category])


\* d[word] = category on an insertion-ordered dict of [word, category]
DictSet(d, word, category) ==
  IF \E k \in 1..Len(d) : d[k].word = word
  THEN [k \in 1..Len(d) |->
          IF d[k].word = word THEN [word |-> word, category |-> category] ELSE d[k]]
  ELSE Append(d, [word |-> word, category |-> category])

RECURSIVE LearnWords(_, _, _)
LearnWords(d, words, category) ==
  IF words = <<>> THEN d
  ELSE LearnWords(DictSet(d, Head(words), category), Tail(words), category)

\* the learned patterns after confirming proposal p with category
Learn(d, p, category) ==
  IF p.category # category /\ p.type = "expense"
  THEN LearnWords(d, FindWords(Lower(p.text), 1), category)
  ELSE d

\* ---- State ----

\* the chats (users) of the model
Users == {1, 2}

VARIABLES
  learned_patterns,     \* self.learned_patterns: ordered dict as a sequence of [word, category]
  transactions,         \* self.transactions: user -> list of transactions (missing key = empty list)
  pending,              \* self.pending: user -> proposal, has = FALSE when the key is missing
  delete_mode,          \* self.delete_mode: user -> missing key / False / transaction_map
  user_incomes,         \* self.user_incomes: user -> monthly income figure
  pending_income,       \* self.pending_income: set of users in income-entry mode
  user_categories,      \* self.user_categories: user -> ordered [name, keywords]; <<>> = missing key
  user_languages,       \* self.user_languages: user -> "" (missing key), "en", "uk", ...
  monthly_totals,       \* self.monthly_totals: user -> [has, t]
  monthly_percentages,  \* self.monthly_percentages: user -> [has, p]
  previous_percentages, \* self.previous_percentages: user -> [has, p]
  current_month,        \* self.current_month: the month marker shared by all users
  clock,                \* the calendar month datetime.now() falls in
  outbox,               \* the messages send_message was asked to send by the last handled event
  threads,              \* the webhook threads that are inside the confirmation branch of process_callback
  proposed,             \* history: user -> number of proposals written to self.pending so far
  noticed               \* history: user -> notice -> times it was sent in the month of the clock

vars == <<learned_patterns, transactions, pending, delete_mode, user_incomes,
          pending_income, user_categories, user_languages, monthly_totals,
          monthly_percentages, previous_percentages, current_month, clock,
          outbox, threads, proposed, noticed>>

\* the fields of the bot object (and the outbox) as one record
Self ==
  [learned_patterns |-> learned_patterns, transactions |-> transactions,
   pending |-> pending, delete_mode |-> delete_mode,
   user_incomes |-> user_incomes, pending_income |-> pending_income,
   user_categories |-> user_categories, user_languages |-> user_languages,
   monthly_totals |-> monthly_totals,
   monthly_percentages |-> monthly_percentages,
   previous_percentages |-> previous_percentages,
   current_month |-> current_month, outbox |-> outbox, proposed |-> proposed,
   noticed |-> noticed]

\* the bot object becomes S
Becomes(S) ==
  /\ learned_patterns' = S.learned_patterns
  /\ transactions' = S.transactions
  /\ pending' = S.pending
  /\ delete_mode' = S.delete_mode
  /\ user_incomes' = S.user_incomes
  /\ pending_income' = S.pending_income
  /\ user_categories' = S.user_categories
  /\ user_languages' = S.user_languages
  /\ monthly_totals' = S.monthly_totals
  /\ monthly_percentages' = S.monthly_percentages
  /\ previous_percentages' = S.previous_percentages
  /\ current_month' = S.current_month
  /\ outbox' = S.outbox
  /\ proposed' = S.proposed
  /\ noticed' = S.noticed

NoPending == [has |-> FALSE, amount |-> Zero, text |-> "", category |-> "", type |-> ""]
NoIncome == [has |-> FALSE, v |-> Zero]
NoDeleteMode == [state |-> "absent", map |-> <<>>]
DeleteModeOff == [state |-> "off", map |-> <<>>]
DefaultCategories == << [name |-> "Other", keywords |-> <<>>] >>
FirstMonth == 1

\* the webhook starts one thread per update (lines 1765-1766); the model
\* has MaxThreads of them inside a confirmation at the same time
MaxThreads == 2
ThreadIds == 1..MaxThreads
\* the notices of check_503020_limits (lines 264-300)
Notices ==
  {"needs_approaching", "needs_over", "wants_approaching", "wants_over",
   "future_on_target", "future_excellent"}
NoNotices == [m \in Notices |-> 0]
IdleThread == [pc |-> "idle", u |-> 0, category |-> "", p |-> NoPending, serial |-> 0]

\* the state after SimpleFinnBot() with no data files on disk
Init ==
  /\ learned_patterns = <<>>
  /\ transactions = [u \in Users |-> <<>>]
  /\ pending = [u \in Users |-> NoPending]
  /\ delete_mode = [u \in Users |-> NoDeleteMode]
  /\ user_incomes = [u \in Users |-> NoIncome]
  /\ pending_income = {}
  /\ user_categories = [u \in Users |-> <<>>]
  /\ user_languages = [u \in Users |-> ""]
  /\ monthly_totals = [u \in Users |-> [has |-> FALSE, t |-> ZeroTotals]]
  /\ monthly_percentages = [u \in Users |-> [has |-> FALSE, p |-> ZeroPct]]
  /\ previous_percentages = [u \in Users |-> [has |-> FALSE, p |-> ZeroPct]]
  /\ current_month = FirstMonth
  /\ clock = FirstMonth
  /\ outbox = <<>>
  /\ threads = [t \in ThreadIds |-> IdleThread]
  /\ proposed = [u \in Users |-> 0]
  /\ noticed = [u \in Users |-> NoNotices]

\* ---- Helpers of the handlers ----

\* send_message(chat_id, ...): the message is identified by a tag
send_message(S, m) == [S EXCEPT !.outbox = Append(@, m)]

\* get_user_categories(user_id): creates the default table on first use
get_user_categories(S, u) ==
  IF S.user_categories[u] = <<>>
  THEN [S EXCEPT !.user_categories[u] = DefaultCategories]
  ELSE S

HasCategory(table, name) == \E k \in 1..Len(table) : table[k].name = name

\* add_user_category(user_id, category_name)
add_user_category(S, u, name) ==
  LET S1 == get_user_categories(S, u) IN
  IF ~HasCategory(S1.user_categories[u], name)
  THEN [S1 EXCEPT !.user_categories[u] = Append(@, [name |-> name, keywords |-> <<>>])]
  ELSE S1

InSeq(q, x) == \E k \in 1..Len(q) : q[k] = x

\* a faulty variant of CanRemoveCategory: the protected savings categories
\* are not tested
CanRemoveCategoryListed(table, name) ==
  /\ HasCategory(table, name)
  /\ name \notin {"Food", "Other"}

\* remove_user_category: TRUE when the category is removed
CanRemoveCategory(table, name) ==
  /\ ~InSeq(protected_savings_categories, name)
  /\ HasCategory(table, name)
  /\ name \notin {"Food", "Other"}

remove_user_category(S, u, name) ==
  LET S1 == get_user_categories(S, u) IN
  IF CanRemoveCategory(S1.user_categories[u], name)
  THEN [S1 EXCEPT !.user_categories[u] =
          SelectSeq(@, LAMBDA c : c.name # name)]
  ELSE S1

\* guess_category, lines 621-623: the index of the first learned word
\* (insertion order) that occurs in s, 0 if none does
RECURSIVE LearnedMatch(_, _, _)
LearnedMatch(d, s, k) ==
  IF k > Len(d) THEN 0
  ELSE IF Contains(s, d[k].word) THEN k
  ELSE LearnedMatch(d, s, k + 1)

\* guess_category, lines 629-635: the first category other than "Other"
\* one of whose keywords occurs in s
RECURSIVE KeywordMatch(_, _, _)
KeywordMatch(table, s, k) ==
  IF k > Len(table) THEN "Other"
  ELSE IF table[k].name # "Other"
          /\ \E j \in 1..Len(table[k].keywords) : Contains(s, table[k].keywords[j])
       THEN table[k].name
  ELSE KeywordMatch(table, s, k + 1)

\* a faulty variant of guess_category: the keywords of the table are tried
\* before the learned patterns
guess_category_keywords_first(S, text_lower, u) ==
  LET k == LearnedMatch(S.learned_patterns, text_lower, 1)
      byKeyword == KeywordMatch(get_user_categories(S, u).user_categories[u], text_lower, 1)
  IN  IF byKeyword # "Other" THEN byKeyword
      ELSE IF k > 0 THEN S.learned_patterns[k].category
      ELSE "Other"

\* a faulty variant of guess_category: only the table of the user decides
guess_category_table_only(S, text_lower, u) ==
  KeywordMatch(get_user_categories(S, u).user_categories[u], text_lower, 1)

\* guess_category(text, user_id): the returned category, text_lower = text.lower()
guess_category(S, text_lower, u) ==
  LET k == LearnedMatch(S.learned_patterns, text_lower, 1) IN
  IF k > 0 THEN S.learned_patterns[k].category
  ELSE KeywordMatch(get_user_categories(S, u).user_categories[u], text_lower, 1)

\* guess_category(text, user_id): the bot afterwards (the table is created
\* when the learned patterns do not decide)
guess_category_effect(S, text_lower, u) ==
  IF LearnedMatch(S.learned_patterns, text_lower, 1) > 0 THEN S
  ELSE get_user_categories(S, u)

\* ---- process_message ----

\* lines 1083-1121: the display numbers 1..N of the delete list, each mapped
\* to the 0-based index of its transaction; the list is grouped by kind
RECURSIVE IndicesOfKind(_, _, _)
IndicesOfKind(txs, kind, i) ==
  IF i > Len(txs) THEN <<>>
  ELSE (IF txs[i].type = kind THEN <<i - 1>> ELSE <<>>) \o IndicesOfKind(txs, kind, i + 1)

\* a faulty variant of BuildMap: the indices are counted from 1
RECURSIVE BuildMapFromOne(_, _)
BuildMapFromOne(txs, k) ==
  IF k > Len(KindOrder) THEN <<>>
  ELSE LET found == IndicesOfKind(txs, KindOrder[k], 1)
       IN  [i \in 1..Len(found) |-> found[i] + 1] \o BuildMapFromOne(txs, k + 1)

RECURSIVE BuildMap(_, _)
BuildMap(txs, k) ==
  IF k > Len(KindOrder) THEN <<>>
  ELSE IndicesOfKind(txs, KindOrder[k], 1) \o BuildMap(txs, k + 1)

\* user_transactions.pop(actual_index), the index counted from 0 (line 791)
RemoveAt(txs, index) ==
  [k \in 1..(Len(txs) - 1) |-> IF k <= index THEN txs[k] ELSE txs[k + 1]]
\* a faulty variant of Renumber: the ids are left as they were
RenumberSkipped(txs) == txs
\* lines 816-817: for i, tx in enumerate(user_transactions): tx['id'] = i + 1
Renumber(txs) == [k \in 1..Len(txs) |-> [txs[k] EXCEPT !.id = k]]

\* a faulty variant of DeleteReply: the mode stays on after a deletion
DeleteReplyLoop(S, u, text, info) ==
  LET map == S.delete_mode[u].map
      txs == S.transactions[u]
      selected_number == info.int
      actual_index == map[selected_number]
  IN  IF ~info.isdigit
      THEN send_message([S EXCEPT !.delete_mode[u] = DeleteModeOff], "delete_cancelled")
      ELSE IF text = "0"
      THEN send_message([S EXCEPT !.delete_mode[u] = DeleteModeOff], "exit_delete")
      ELSE IF selected_number \in 1..Len(map) /\ actual_index < Len(txs)
      THEN send_message(
             [S EXCEPT !.transactions[u] = Renumber(RemoveAt(txs, actual_index))],
             "deleted")
      ELSE send_message(S, "invalid_number")

\* a faulty variant of DeleteReply: the amount of a deleted expense is
\* taken out of the monthly totals
DeleteReplyRefunding(S, u, text, info) ==
  LET map == S.delete_mode[u].map
      txs == S.transactions[u]
      selected_number == info.int
      actual_index == map[selected_number]
      deleted == txs[actual_index + 1]
      bucket == categorize_transaction(deleted.category, deleted.description)
  IN  IF ~info.isdigit
      THEN send_message([S EXCEPT !.delete_mode[u] = DeleteModeOff], "delete_cancelled")
      ELSE IF text = "0"
      THEN send_message([S EXCEPT !.delete_mode[u] = DeleteModeOff], "exit_delete")
      ELSE IF selected_number \in 1..Len(map) /\ actual_index < Len(txs)
      THEN send_message(
             [S EXCEPT !.transactions[u] = Renumber(RemoveAt(txs, actual_index)),
                       !.delete_mode[u] = DeleteModeOff,
                       !.monthly_totals[u].t[bucket] =
                          IF deleted.type = "expense"
                          THEN NumAdd(@, NumNeg(deleted.amount)) ELSE @],
             "deleted")
      ELSE send_message(S, "invalid_number")

\* lines 776-830: a reply while delete mode is active
DeleteReply(S, u, text, info) ==
  LET map == S.delete_mode[u].map
      txs == S.transactions[u]
      selected_number == info.int
      actual_index == map[selected_number]
  IN  IF ~info.isdigit
      THEN send_message([S EXCEPT !.delete_mode[u] = DeleteModeOff], "delete_cancelled")
      ELSE IF text = "0"
      THEN send_message([S EXCEPT !.delete_mode[u] = DeleteModeOff], "exit_delete")
      ELSE IF selected_number \in 1..Len(map) /\ actual_index < Len(txs)
      THEN send_message(
             [S EXCEPT !.transactions[u] = Renumber(RemoveAt(txs, actual_index)),
                       !.delete_mode[u] = DeleteModeOff],
             "deleted")
      ELSE send_message(S, "invalid_number")

\* a faulty variant of IncomeReply: setting the income drops the proposal
IncomeReplyClearing(S, u, info) ==
  LET income == info.float IN
  IF ~income.ok THEN send_message(S, "income_invalid")
  ELSE IF NumLe(income.v, Zero) THEN send_message(S, "income_not_positive")
  ELSE send_message(
         [S EXCEPT !.user_incomes[u] = [has |-> TRUE, v |-> income.v],
                   !.pending_income = @ \ {u},
                   !.pending[u] = NoPending],
         "income_set")

\* lines 1191-1241: a text while the user is in income-entry mode
IncomeReply(S, u, info) ==
  LET income == info.float IN
  IF ~income.ok THEN send_message(S, "income_invalid")
  ELSE IF NumLe(income.v, Zero) THEN send_message(S, "income_not_positive")
  ELSE send_message(
         [S EXCEPT !.user_incomes[u] = [has |-> TRUE, v |-> income.v],
                   !.pending_income = @ \ {u}],
         "income_set")

\* a faulty variant of StoreProposal: a proposal already pending is kept
StoreProposalIfFree(S, u, proposal) ==
  [S EXCEPT !.pending[u] = IF @.has THEN @ ELSE proposal, !.proposed[u] = @ + 1]

\* self.pending[chat_id] = {...} (lines 1254 and 1375)
StoreProposal(S, u, proposal) ==
  [S EXCEPT !.pending[u] = proposal, !.proposed[u] = @ + 1]

\* lines 1243-1450: regular transaction processing
RegularText(S, u, info) ==
  LET a == info.analysis
      proposal == [has |-> TRUE, amount |-> a.amount, text |-> a.text,
                   category |-> a.category, type |-> a.type]
  IN  CASE a.via = "calc" ->
             send_message(StoreProposal(S, u, proposal),
                          IF a.type = "income" THEN "calc_select_category"
                                               ELSE "calc_confirm")
        [] a.via = "error" -> send_message(S, a.msg)
        [] a.via = "crash" -> send_message(S, "savings_select_category")
        [] a.via = "extract" /\ a.type = "expense" ->
             send_message(
               StoreProposal(get_user_categories(guess_category_effect(S, info.lower, u), u), u,
                             [proposal EXCEPT !.category = guess_category(S, info.lower, u)]),
               "expense_select_category")
        [] a.via = "extract" /\ a.type # "expense" ->
             send_message(StoreProposal(S, u, proposal),
                          IF a.type = "income" THEN "income_select_category"
                                               ELSE "confirm_" \o a.type)
        [] OTHER -> send_message(S, "guidance")

\* process_message(msg) for the chat u and the text of msg, on the bot S0
process_message_on(S0, u, text) ==
  LET Handle(S, info) ==
        IF S.delete_mode[u].state = "map" THEN DeleteReply(S, u, text, info)
        ELSE IF text = CMD_START THEN send_message(S, "choose_language")
        ELSE IF text = CMD_LANGUAGE THEN send_message(S, "language_menu")
        ELSE IF text = CMD_RESTART THEN send_message(S, "restart_confirmation")
        ELSE IF text = CMD_INCOME
        THEN send_message([S EXCEPT !.pending_income = @ \cup {u}], "income_prompt")
        ELSE IF text = CMD_HELP THEN send_message(S, "help")
        ELSE IF text = CMD_SUMMARY
        THEN (IF S.transactions[u] = <<>> THEN send_message(S, "no_transactions")
              ELSE S)  \* summary_text is never assigned: UnboundLocalError
        ELSE IF text = CMD_STATUS
        THEN (IF ~S.monthly_totals[u].has \/ ~S.monthly_percentages[u].has
                 \/ S.monthly_totals[u].t.income = Zero
              THEN send_message(S, "no_503020_data")
              ELSE send_message(S, "status"))
        ELSE IF text = CMD_DELETE
        THEN (IF S.transactions[u] = <<>> THEN send_message(S, "nothing_to_delete")
              ELSE send_message(
                     [S EXCEPT !.delete_mode[u] =
                        [state |-> "map", map |-> BuildMap(S.transactions[u], 1)]],
                     "delete_list"))
        ELSE IF text = CMD_CATEGORIES
        THEN send_message(get_user_categories(S, u), "categories")
        ELSE IF info.add
        THEN (IF HasCategory(get_user_categories(S, u).user_categories[u], info.rest)
              THEN send_message(get_user_categories(S, u), "category_exists")
              ELSE send_message(add_user_category(S, u, info.rest), "category_added"))
        ELSE IF info.remove
        THEN (IF CanRemoveCategory(get_user_categories(S, u).user_categories[u], info.rest)
              THEN send_message(remove_user_category(S, u, info.rest), "category_removed")
              ELSE send_message(get_user_categories(S, u), "category_not_removed"))
        ELSE IF u \in S.pending_income THEN IncomeReply(S, u, info)
        ELSE RegularText(S, u, info)
  IN  Handle([S0 EXCEPT !.outbox = <<>>], TextInfo(text))

\* ---- process_callback ----

\* a faulty variant of update_503020_totals: in a new month the totals of
\* every chat are reset
update_503020_totals_all(S, u, amount, bucket, now) ==
  LET t0 == IF S.monthly_totals[u].has /\ now = S.current_month
            THEN S.monthly_totals[u].t ELSE ZeroTotals
      t1 == [t0 EXCEPT ![bucket] = NumAdd(@, amount)]
  IN  [S EXCEPT !.monthly_totals =
                   [v \in Users |->
                      IF v = u THEN [has |-> TRUE, t |-> t1]
                      ELSE IF now = S.current_month THEN @[v]
                      ELSE [has |-> @[v].has, t |-> ZeroTotals]],
                !.current_month = now,
                !.monthly_percentages[u] =
                   [has |-> TRUE, p |-> calculate_503020_percentages(t1)]]

\* update_503020_totals(user_id, amount, bucket) in the month now
update_503020_totals(S, u, amount, bucket, now) ==
  LET t0 == IF S.monthly_totals[u].has /\ now = S.current_month
            THEN S.monthly_totals[u].t ELSE ZeroTotals
      t1 == [t0 EXCEPT ![bucket] = NumAdd(@, amount)]
  IN  [S EXCEPT !.monthly_totals[u] = [has |-> TRUE, t |-> t1],
                !.current_month = now,
                !.monthly_percentages[u] =
                   [has |-> TRUE, p |-> calculate_503020_percentages(t1)]]

\* a faulty variant of update_income_for_503020: the percentages are not
\* computed again
update_income_stale(S, u, amount) ==
  [S EXCEPT !.monthly_totals[u] =
              [has |-> TRUE,
               t |-> [(IF @.has THEN @.t ELSE ZeroTotals)
                        EXCEPT !.income = NumAdd(@, amount)]],
            !.monthly_percentages[u] = [has |-> TRUE, p |-> @.p]]

\* update_income_for_503020(user_id, amount)
update_income_for_503020(S, u, amount) ==
  LET t0 == IF S.monthly_totals[u].has THEN S.monthly_totals[u].t ELSE ZeroTotals
      t1 == [t0 EXCEPT !.income = NumAdd(@, amount)]
  IN  [S EXCEPT !.monthly_totals[u] = [has |-> TRUE, t |-> t1],
                !.monthly_percentages[u] =
                   [has |-> TRUE, p |-> calculate_503020_percentages(t1)]]

RECURSIVE SendAll(_, _)
SendAll(S, msgs) ==
  IF msgs = <<>> THEN S ELSE SendAll(send_message(S, Head(msgs)), Tail(msgs))

\* check_503020_limits(user_id) and the sending of its notices (1577-1579)
check_503020_limits(S, u) ==
  IF ~S.monthly_percentages[u].has THEN S
  ELSE LET current == S.monthly_percentages[u].p
           previous == IF S.previous_percentages[u].has
                       THEN S.previous_percentages[u].p ELSE ZeroPct
           Sent(msgs) ==
             SendAll([S EXCEPT !.previous_percentages[u] = [has |-> TRUE, p |-> current],
                               !.noticed[u] = [m \in Notices |->
                                                 IF InSeq(msgs, m) THEN @[m] + 1 ELSE @[m]]],
                     msgs)
       IN  Sent(LimitNotices(current, previous))

\* a faulty variant of CommitPending: the suggested category is stored
CommitPendingSuggested(S, u, p, category, now) ==
  [S EXCEPT !.learned_patterns = Learn(@, p, category),
            !.transactions[u] =
               Append(@, [id |-> Len(@) + 1, amount |-> p.amount,
                          category |-> p.category, description |-> p.text,
                          type |-> p.type, date |-> now])]

\* a faulty variant of CommitPending: a transaction with the description of
\* the last one is added to it instead of being appended
CommitPendingMerged(S, u, p, category, now) ==
  LET txs == S.transactions[u]
      n == Len(txs)
  IN  [S EXCEPT !.learned_patterns = Learn(@, p, category),
                !.transactions[u] =
                   IF n > 0 /\ txs[n].description = p.text
                   THEN [txs EXCEPT ![n].amount = NumAdd(@, p.amount)]
                   ELSE Append(txs, [id |-> n + 1, amount |-> p.amount,
                                     category |-> category, description |-> p.text,
                                     type |-> p.type, date |-> now])]

\* lines 1530-1548: learn from a correction, append the transaction
CommitPending(S, u, p, category, now) ==
  LET txs == S.transactions[u]
      transaction == [id |-> Len(txs) + 1, amount |-> p.amount,
                      category |-> category, description |-> p.text,
                      type |-> p.type, date |-> now]
  IN  [S EXCEPT !.learned_patterns = Learn(@, p, category),
                !.transactions[u] = Append(txs, transaction)]

\* a faulty variant of TrackBudget: savings are counted in the future
\* bucket whatever the category
TrackBudgetByKind(S, u, p, category, now) ==
  check_503020_limits(
    IF p.type = "income"
    THEN update_income_for_503020(S, u, p.amount)
    ELSE update_503020_totals(S, u, p.amount,
                              IF p.type = "savings" THEN "future"
                              ELSE categorize_transaction(category, p.text), now),
    u)

\* lines 1567-1579: the 50/30/20 totals, percentages and notices
TrackBudget(S, u, p, category, now) ==
  check_503020_limits(
    IF p.type = "income"
    THEN update_income_for_503020(S, u, p.amount)
    ELSE update_503020_totals(S, u, p.amount,
                              categorize_transaction(category, p.text), now),
    u)

\* sum(t['amount'] for t in user_transactions if t['type'] == 'savings')
RECURSIVE current_savings(_, _)
current_savings(txs, i) ==
  IF i > Len(txs) THEN Zero
  ELSE NumAdd(IF txs[i].type = "savings" THEN txs[i].amount ELSE Zero,
              current_savings(txs, i + 1))

\* a faulty variant of calculate_savings_recommendation: the income of
\* exactly 100000 is in the tier of the large incomes
calculate_savings_recommendation_ge(S, u, income_amount) ==
  LET large == NumGe(income_amount, Int2Num(100000))
      min_save == NumMul(income_amount, IF large THEN Frac(10, 100) ELSE Frac(15, 100))
      max_save == NumMul(income_amount, IF large THEN Frac(15, 100) ELSE Frac(20, 100))
  IN  (IF large THEN "conservative" ELSE "balanced")
      \o " " \o Format0f(min_save) \o " - " \o Format0f(max_save) \o " initial"

\* calculate_savings_recommendation(user_id, income_amount): the message,
\* made of the urgency, the recommended range and the framing
calculate_savings_recommendation(S, u, income_amount) ==
  LET large == NumGt(income_amount, Int2Num(100000))
      min_save == NumMul(income_amount, IF large THEN Frac(10, 100) ELSE Frac(15, 100))
      max_save == NumMul(income_amount, IF large THEN Frac(15, 100) ELSE Frac(20, 100))
      Framing(saved) ==
        IF NumLt(saved, Int2Num(50000)) THEN "initial"
        ELSE IF NumLt(saved, Int2Num(200000)) THEN "progress"
        ELSE "discipline"
  IN  (IF large THEN "conservative" ELSE "balanced")
      \o " " \o Format0f(min_save) \o " - " \o Format0f(max_save)
      \o " " \o Framing(current_savings(S.transactions[u], 1))

\* lines 1581-1625: the replies, then del self.pending[chat_id]; when the
\* key is gone the del raises KeyError, which ends the handler
FinishConfirmation(S, u, p) ==
  LET S1 == IF p.type = "income"
            THEN send_message(
                   send_message(S, calculate_savings_recommendation(S, u, p.amount)),
                   "income_saved")
            ELSE send_message(S, p.type \o "_saved")
  IN  [S1 EXCEPT !.pending[u] = NoPending]

\* lines 1645-1674: confirm_restart
Restart(S, u) ==
  [S EXCEPT !.transactions[u] = <<>>,
            !.user_incomes[u] = NoIncome,
            !.user_categories[u] = IF @ = <<>> THEN @ ELSE DefaultCategories,
            !.pending[u] = NoPending,
            !.pending_income = @ \ {u},
            !.delete_mode[u] = NoDeleteMode]

\* a faulty variant of ExpiredConfirmation: the category table is looked up
ExpiredConfirmationLooksUp(S, u) == send_message(get_user_categories(S, u), "expired")

\* lines 1641-1643: a confirmation with nothing pending
ExpiredConfirmation(S, u) == send_message(S, "expired")

\* process_callback(query) for the chat u and the data of query, on the bot S0
process_callback_on(S0, u, data, now) ==
  LET Handle(S, d) ==
        IF d.start_lang
        THEN send_message([S EXCEPT !.user_languages[u] = d.from12], "welcome")
        ELSE IF d.cat
        THEN (IF S.pending[u].has
              THEN FinishConfirmation(
                     TrackBudget(CommitPending(S, u, S.pending[u], d.from5, now),
                                 u, S.pending[u], d.from5, now),
                     u, S.pending[u])
              ELSE ExpiredConfirmation(S, u))
        ELSE IF data = "confirm_restart" THEN send_message(Restart(S, u), "restarted")
        ELSE IF data = "cancel_restart" THEN send_message(S, "restart_cancelled")
        ELSE IF d.lang
        THEN send_message([S EXCEPT !.user_languages[u] = d.from6], "language_set")
        ELSE S
  IN  Handle([S0 EXCEPT !.outbox = <<>>], DataRecord(data))

RECURSIVE SumOver(_, _)
SumOver(f, dom) ==
  IF dom = {} THEN 0
  ELSE LET x == CHOOSE x \in dom : TRUE IN f[x] + SumOver(f, dom \ {x})
TotalProposed(S) == SumOver(S.proposed, Users)

\* ---- Actions: one event handled at a time ----

\* process_update with a message of chat u
ProcessMessage(u, text) ==
  LET Handled(S) == TotalProposed(S) <= MaxProposals /\ Becomes(S)
  IN  /\ Handled(process_message_on(Self, u, text))
      /\ UNCHANGED <<clock, threads>>

\* process_update with a callback query of chat u
ProcessCallback(u, data) ==
  /\ Becomes(process_callback_on(Self, u, data, clock))
  /\ UNCHANGED <<clock, threads>>

\* the calendar month advances
Tick ==
  /\ clock < MaxMonth
  /\ clock' = clock + 1
  /\ UNCHANGED <<learned_patterns, transactions, pending, delete_mode,
                 user_incomes, pending_income, user_categories,
                 user_languages, monthly_totals, monthly_percentages,
                 previous_percentages, current_month, outbox, threads, proposed>>
  /\ noticed' = [u \in Users |-> NoNotices]

\* the texts chat u sends and the buttons it presses
TextsOf(u) == IF u = 1 THEN Texts ELSE OtherTexts
DataOf(u) == IF u = 1 THEN CallbackData ELSE OtherData

Next ==
  \/ \E u \in Users : \E text \in TextsOf(u) : ProcessMessage(u, text)
  \/ \E u \in Users : \E data \in DataOf(u) : ProcessCallback(u, data)
  \/ Tick

\* events are handled one after the other
Spec == Init /\ [][Next]_vars

\* ---- Actions: one text handled by the bot as constructed ----

\* nothing has been handled yet
Fresh ==
  /\ outbox = <<>>
  /\ TotalProposed(Self) = 0
  /\ \A u \in Users : user_categories[u] = <<>> /\ delete_mode[u] = NoDeleteMode

FirstMessage(text) == Fresh /\ ProcessMessage(1, text)

\* the examples of the welcome and help texts (lines 107-111 and 929-934)
\* and the two spellings of a returned debt
ExampleTexts ==
  {"+5000 salary", "-200 loan", "-100 debt", "++200 savings", "+-50", "50+-"}

NextText == \E text \in AllTexts \cup ExampleTexts : FirstMessage(text)

\* every text of AllTexts as the first message the bot receives
SpecText == Init /\ [][NextText]_vars

\* ---- Actions: arithmetic texts with percent signs as first messages ----

\* every text made of at most MaxTokens of the tokens
ArithTokens == {"5", "+", "-", "%", "a"}
RECURSIVE ArithTextsOfLen(_)
ArithTextsOfLen(k) ==
  IF k = 0 THEN {""}
  ELSE {s \o c : s \in ArithTextsOfLen(k - 1), c \in ArithTokens}
ArithTexts == UNION {ArithTextsOfLen(k) : k \in 1..MaxTokens}

NextArith == \E text \in ArithTexts : FirstMessage(text)

SpecArith == Init /\ [][NextArith]_vars

\* ---- Actions: confirmations on webhook threads (lines 1755-1768) ----
\* The webhook starts a thread per update and nothing orders the threads.
\* The confirmation branch of process_callback is split where it reads or
\* writes self.pending and self.transactions; between these places it
\* prints, writes files and calls the Telegram API. A text message is
\* handled in one step: it writes self.pending in one assignment.
\* The outbox holds the messages of the last step.

Quiet == [Self EXCEPT !.outbox = <<>>]

\* line 1518-1522: category = data[4:]; if chat_id in self.pending
ThreadCheck(t, u, data) ==
  /\ threads[t].pc = "idle"
  /\ DataRecord(data).cat
  /\ IF pending[u].has
     THEN /\ threads' = [threads EXCEPT ![t] =
                           [IdleThread EXCEPT !.pc = "read", !.u = u,
                                              !.category = DataRecord(data).from5]]
          /\ Becomes(Quiet)
     ELSE /\ Becomes(ExpiredConfirmation(Quiet, u))
          /\ UNCHANGED threads
  /\ UNCHANGED clock

\* lines 1523-1526: pending = self.pending[chat_id]; a KeyError when
\* the key has gone ends the handler (process_update catches it)
ThreadRead(t) ==
  LET th == threads[t] IN
  /\ th.pc = "read"
  /\ threads' = [threads EXCEPT ![t] =
                   IF pending[th.u].has
                   THEN [th EXCEPT !.pc = "commit", !.p = pending[th.u],
                                   !.serial = proposed[th.u]]
                   ELSE IdleThread]
  /\ Becomes(Quiet)
  /\ UNCHANGED clock

\* lines 1530-1548
ThreadCommit(t) ==
  LET th == threads[t] IN
  /\ th.pc = "commit"
  /\ Becomes(CommitPending(Quiet, th.u, th.p, th.category, clock))
  /\ threads' = [threads EXCEPT ![t].pc = "budget"]
  /\ UNCHANGED clock

\* lines 1567-1579
ThreadBudget(t) ==
  LET th == threads[t] IN
  /\ th.pc = "budget"
  /\ Becomes(TrackBudget(Quiet, th.u, th.p, th.category, clock))
  /\ threads' = [threads EXCEPT ![t].pc = "finish"]
  /\ UNCHANGED clock

\* lines 1581-1625
ThreadFinish(t) ==
  LET th == threads[t] IN
  /\ th.pc = "finish"
  /\ Becomes(FinishConfirmation(Quiet, th.u, th.p))
  /\ threads' = [threads EXCEPT ![t] = IdleThread]
  /\ UNCHANGED clock

\* a text message of chat u, handled by its own thread in one step
ThreadMessage(u, text) ==
  LET Handled(S) == TotalProposed(S) <= MaxConcProposals /\ Becomes(S)
  IN  /\ Handled(process_message_on(Self, u, text))
      /\ UNCHANGED <<clock, threads>>

\* the chats whose events are handled concurrently
ConcUsers == {1}

NextConc ==
  \/ \E u \in ConcUsers, text \in ConcTexts : ThreadMessage(u, text)
  \/ \E t \in ThreadIds, u \in ConcUsers, data \in ConcData : ThreadCheck(t, u, data)
  \/ \E t \in ThreadIds : ThreadRead(t)
  \/ \E t \in ThreadIds : ThreadCommit(t)
  \/ \E t \in ThreadIds : ThreadBudget(t)
  \/ \E t \in ThreadIds : ThreadFinish(t)

\* handlers of concurrent updates interleave
SpecConc == Init /\ [][NextConc]_vars

\* ---- Actions: the budget tracker over the months ----

\* a text message of chat u
BudgetMessage(u, text) ==
  LET Handled(S) == TotalProposed(S) <= MaxBudgetProposals /\ Becomes(S)
  IN  /\ Handled(process_message_on(Self, u, text))
      /\ UNCHANGED <<clock, threads>>

BudgetTextsOf(u) == IF u = 1 THEN BudgetTexts ELSE OtherBudgetTexts
BudgetDataOf(u) == IF u = 1 THEN BudgetData ELSE OtherBudgetData

NextBudget ==
  \/ \E u \in Users : \E text \in BudgetTextsOf(u) : BudgetMessage(u, text)
  \/ \E u \in Users : \E data \in BudgetDataOf(u) : ProcessCallback(u, data)
  \/ Tick

\* incomes and expenses are proposed and confirmed while the months pass;
\* nothing is deleted, so the ledger holds every commit
SpecBudget == Init /\ [][NextBudget]_vars

\* ---- Actions: incomes of both tiers and savings ----

NextIncome ==
  \/ \E text \in IncomeTexts : ProcessMessage(1, text)
  \/ \E data \in IncomeData : ProcessCallback(1, data)

SpecIncome == Init /\ [][NextIncome]_vars

\* ---- Actions: the category tables, the classifier and a new process ----

\* user_categories.json as load_user_categories finds it (lines 487-497):
\* no file, or the table of the first chat with keywords
LoadedTables ==
  { <<>>,
    << [name |-> "Other", keywords |-> <<>>],
       [name |-> "Cafe", keywords |-> <<"lunch">>],
       [name |-> "Transport", keywords |-> <<"taxi">>] >>,
    << [name |-> "Other", keywords |-> <<"taxi">>],
       [name |-> "Transport", keywords |-> <<"bus", "taxi">>],
       [name |-> "Cafe", keywords |-> <<"taxi", "lunch">>] >> }

\* the state after SimpleFinnBot() with a user_categories.json on disk
InitCategories ==
  /\ learned_patterns = <<>>
  /\ transactions = [u \in Users |-> <<>>]
  /\ pending = [u \in Users |-> NoPending]
  /\ delete_mode = [u \in Users |-> NoDeleteMode]
  /\ user_incomes = [u \in Users |-> NoIncome]
  /\ pending_income = {}
  /\ \E table \in LoadedTables :
       user_categories = [u \in Users |-> IF u = 1 THEN table ELSE <<>>]
  /\ user_languages = [u \in Users |-> ""]
  /\ monthly_totals = [u \in Users |-> [has |-> FALSE, t |-> ZeroTotals]]
  /\ monthly_percentages = [u \in Users |-> [has |-> FALSE, p |-> ZeroPct]]
  /\ previous_percentages = [u \in Users |-> [has |-> FALSE, p |-> ZeroPct]]
  /\ current_month = FirstMonth
  /\ clock = FirstMonth
  /\ outbox = <<>>
  /\ threads = [t \in ThreadIds |-> IdleThread]
  /\ proposed = [u \in Users |-> 0]
  /\ noticed = [u \in Users |-> NoNotices]

\* json.dump(self.transactions, f): the chat ids become strings (line 436)
save_transactions(txs) ==
  [key \in {IntStr(u) : u \in Users} |-> txs[CHOOSE u \in Users : IntStr(u) = key]]

\* load_transactions (lines 441-468): user_id = int(key)
load_transactions(file) ==
  [u \in Users |-> IF IntStr(u) \in DOMAIN file THEN file[IntStr(u)] ELSE <<>>]

\* the process ends and SimpleFinnBot() is constructed again in the month
\* now (lines 59-78): the ledgers, the income figures, the category tables
\* and the languages are read from the files the handlers wrote, every
\* other field starts empty
Constructed(S, now) ==
  [S EXCEPT !.learned_patterns = <<>>,
            !.transactions = load_transactions(save_transactions(@)),
            !.pending = [u \in Users |-> NoPending],
            !.delete_mode = [u \in Users |-> NoDeleteMode],
            !.pending_income = {},
            !.monthly_totals = [u \in Users |-> [has |-> FALSE, t |-> ZeroTotals]],
            !.monthly_percentages = [u \in Users |-> [has |-> FALSE, p |-> ZeroPct]],
            !.previous_percentages = [u \in Users |-> [has |-> FALSE, p |-> ZeroPct]],
            !.current_month = now,
            !.outbox = <<>>]

\* a restart of the process
ProcessRestart ==
  /\ Becomes(Constructed(Self, clock))
  /\ UNCHANGED <<clock, threads>>

NextCategories ==
  \/ \E text \in CategoryTexts : ProcessMessage(1, text)
  \/ \E data \in CategoryData : ProcessCallback(1, data)
  \/ ProcessRestart

SpecCategories == InitCategories /\ [][NextCategories]_vars

\* ---- Actions: the delete mode of one chat ----

NextDelete ==
  \/ \E text \in DeleteTexts : ProcessMessage(1, text)
  \/ \E data \in DeleteData : ProcessCallback(1, data)

SpecDelete == Init /\ [][NextDelete]_vars

\* ---- Actions: a proposal and the other events of its chat ----

NextEvents ==
  \/ \E text \in EventTexts : ProcessMessage(1, text)
  \/ \E data \in EventData : ProcessCallback(1, data)
  \/ Tick

SpecEvents == Init /\ [][NextEvents]_vars

\* ---- Actions: two chats with interleaved handlers ----

UsersTextsOf(u) == IF u = 1 THEN UsersTexts ELSE OtherUsersTexts

NextUsers ==
  \/ \E u \in Users : \E text \in UsersTextsOf(u) : ThreadMessage(u, text)
  \/ \E t \in ThreadIds, u \in Users, data \in UsersData : ThreadCheck(t, u, data)
  \/ \E t \in ThreadIds : ThreadRead(t)
  \/ \E t \in ThreadIds : ThreadCommit(t)
  \/ \E t \in ThreadIds : ThreadBudget(t)
  \/ \E t \in ThreadIds : ThreadFinish(t)
  \/ Tick

\* the handlers of two chats interleave; the first chat has a table with
\* keywords on disk
InitUsers ==
  /\ InitCategories
  /\ user_categories[1] # <<>>
  /\ user_categories[1][1].keywords = <<>>

SpecUsers == InitUsers /\ [][NextUsers]_vars

\* ---- Actions: savings and expenses over the months ----

NextSavings ==
  \/ \E text \in SavingsTexts : ProcessMessage(1, text)
  \/ \E data \in SavingsData : ProcessCallback(1, data)
  \/ Tick

SpecSavings == Init /\ [][NextSavings]_vars

\* ---- Actions: totals that cross the thresholds of the notices ----

NextNotices ==
  \/ \E text \in NoticeTexts : ProcessMessage(1, text)
  \/ \E data \in NoticeData : ProcessCallback(1, data)
  \/ Tick

SpecNotices == Init /\ [][NextNotices]_vars

\* ---- Actions: replies in delete mode on webhook threads ----
\* A digit reply that names a line of the list pops the transaction (line
\* 791) and sends the confirmation through the Telegram API; the ids are
\* renumbered, the file is written and the mode is switched off afterwards
\* (lines 816-821). Another thread can run between the two parts. Every
\* other event is handled in one step.

\* lines 776-814: a reply of chat u while its delete-mode map is active
ThreadDeleteReply(t, u, text) ==
  LET info == TextInfo(text)
      map == delete_mode[u].map
      Popped(index) ==
        send_message([Quiet EXCEPT !.transactions[u] = RemoveAt(@, index)], "deleted")
  IN  /\ threads[t].pc = "idle"
      /\ delete_mode[u].state = "map"
      /\ IF info.isdigit /\ text # "0" /\ info.int \in 1..Len(map)
            /\ map[info.int] < Len(transactions[u])
         THEN /\ Becomes(Popped(map[info.int]))
              /\ threads' = [threads EXCEPT ![t] =
                               [IdleThread EXCEPT !.pc = "renumber", !.u = u]]
         ELSE /\ Becomes(DeleteReply(Quiet, u, text, info))
              /\ UNCHANGED threads
      /\ UNCHANGED clock

\* lines 816-821: the ids are renumbered and the mode is switched off
ThreadDeleteFinish(t) ==
  LET th == threads[t] IN
  /\ th.pc = "renumber"
  /\ Becomes([Quiet EXCEPT !.transactions[th.u] = Renumber(@),
                           !.delete_mode[th.u] = DeleteModeOff])
  /\ threads' = [threads EXCEPT ![t] = IdleThread]
  /\ UNCHANGED clock

\* a text of chat u that is not a reply in delete mode, handled in one step
ThreadText(u, text) ==
  /\ delete_mode[u].state # "map"
  /\ ThreadMessage(u, text)

NextConcDelete ==
  \/ \E u \in ConcUsers, text \in ConcDeleteTexts : ThreadText(u, text)
  \/ \E u \in ConcUsers, data \in ConcData : ProcessCallback(u, data)
  \/ \E t \in ThreadIds, u \in ConcUsers, text \in ConcDeleteTexts :
       ThreadDeleteReply(t, u, text)
  \/ \E t \in ThreadIds : ThreadDeleteFinish(t)

\* replies in delete mode are handled by threads that interleave
SpecConcDelete == Init /\ [][NextConcDelete]_vars

\* ---- Properties ----

\* the texts that are commands of the menu
MenuTexts ==
  {CMD_START, CMD_LANGUAGE, CMD_RESTART, CMD_INCOME, CMD_HELP, CMD_SUMMARY,
   CMD_STATUS, CMD_DELETE, CMD_CATEGORIES}

\* the text of chat u is handed to the amount analysis of process_message
ReachesAnalysis(u, text) ==
  /\ delete_mode[u].state # "map"
  /\ text \notin MenuTexts
  /\ ~TextInfo(text).add
  /\ ~TextInfo(text).remove
  /\ u \notin pending_income

\* the analysis of the text yields a proposal
YieldsProposal(text) == TextInfo(text).analysis.via \in {"calc", "extract"}

\* the fields of the bot other than the messages it sends
BotFields ==
  <<learned_patterns, transactions, pending, delete_mode, user_incomes,
    pending_income, user_categories, user_languages, monthly_totals,
    monthly_percentages, previous_percentages, current_month>>

\* a ledger without its ids
Unnumbered(txs) ==
  [k \in 1..Len(txs) |->
     [amount |-> txs[k].amount, category |-> txs[k].category,
      description |-> txs[k].description, type |-> txs[k].type,
      date |-> txs[k].date]]

\* the sequence q without its i-th element
Without(q, i) == SubSeq(q, 1, i - 1) \o SubSeq(q, i + 1, Len(q))

\* C1: each chat has one slot for a pending proposal; a text from which an
\* amount is extracted while a proposal is pending replaces it: the slot
\* then holds the amount, the text, the suggested category and the kind of
\* the new text, and the earlier proposal is not committed to the ledger.
C1_LastWriteWins ==
  [][\A u \in Users : \A text \in TextsOf(u) :
       (/\ pending[u].has
        /\ ReachesAnalysis(u, text)
        /\ YieldsProposal(text)
        /\ ProcessMessage(u, text))
       => LET a == TextInfo(text).analysis IN
          /\ pending'[u].has
          /\ pending'[u].amount = a.amount
          /\ pending'[u].text = a.text
          /\ pending'[u].type = a.type
          /\ pending'[u].category =
               IF a.via = "extract" /\ a.type = "expense"
               THEN guess_category(Self, Lower(text), u)
               ELSE a.category
          /\ proposed'[u] = proposed[u] + 1
          /\ transactions' = transactions]_vars

\* chat 2 has proposed twice and has never confirmed: its second proposal
\* took the slot of the first
C1_Replaced ==
  /\ proposed[2] = 2
  /\ pending[2].has
  /\ pending[2].text = "150 lunch"
  /\ transactions[2] = <<>>
  /\ ~monthly_totals[2].has
  /\ outbox = <<"expense_select_category">>

\* C2: a confirmation with category c while p is pending and the ledger has
\* N transactions gives a ledger of N + 1 transactions whose last one has
\* id N + 1, the amount, kind and description of p and the category c, and
\* leaves nothing pending.
C2_ConfirmationCommits ==
  [][\A u \in Users : \A data \in DataOf(u) :
       (/\ StartsWith(data, "cat_")
        /\ pending[u].has
        /\ ProcessCallback(u, data))
       => LET N == Len(transactions[u])
              p == pending[u]
          IN  /\ Len(transactions'[u]) = N + 1
              /\ SubSeq(transactions'[u], 1, N) = transactions[u]
              /\ transactions'[u][N + 1].id = N + 1
              /\ transactions'[u][N + 1].amount = p.amount
              /\ transactions'[u][N + 1].type = p.type
              /\ transactions'[u][N + 1].description = p.text
              /\ transactions'[u][N + 1].category = SubSeq(data, 5, Len(data))
              /\ ~pending'[u].has]_vars

\* the proposal of "150 lunch", suggested as Other, was confirmed as Food
\* after another transaction
C2_Committed ==
  /\ outbox = <<"expense_saved">>
  /\ ~pending[1].has
  /\ Len(transactions[1]) = 2
  /\ transactions[1][2].id = 2
  /\ transactions[1][2].description = "150 lunch"
  /\ transactions[1][2].category = "Food"

\* C3: a confirmation while nothing is pending changes no field of the bot
\* (ledger, pending proposals, category table, monthly totals and
\* percentages, learned patterns); its only effect is the message that the
\* transaction expired.
C3_ExpiredChangesNothing ==
  [][\A u \in Users : \A data \in DataOf(u) :
       (/\ StartsWith(data, "cat_")
        /\ ~pending[u].has
        /\ ProcessCallback(u, data))
       => /\ outbox' = <<"expired">>
          /\ UNCHANGED BotFields
          /\ UNCHANGED proposed]_vars

\* a confirmation found nothing pending while the ledger was not empty
C3_Expired ==
  /\ outbox = <<"expired">>
  /\ transactions[1] # <<>>
  /\ ~pending[1].has

\* C4: after every step the i-th transaction of a ledger has id i, and a
\* deletion in delete mode from a ledger of N transactions leaves N - 1
\* transactions, the remaining ones in their previous order.
C4_SequentialIds ==
  [][\A u \in Users :
       /\ \A i \in 1..Len(transactions'[u]) : transactions'[u][i].id = i
       /\ \A text \in TextsOf(u) :
            (ProcessMessage(u, text) /\ outbox' = <<"deleted">>)
            => /\ Len(transactions'[u]) = Len(transactions[u]) - 1
               /\ \E i \in 1..Len(transactions[u]) :
                    Unnumbered(transactions'[u]) =
                      Unnumbered(Without(transactions[u], i))]_vars

\* the income between two expenses was deleted: the expenses are now the
\* transactions 1 and 2
C4_Renumbered ==
  /\ outbox = <<"deleted">>
  /\ proposed[1] = 3
  /\ Len(transactions[1]) = 2
  /\ transactions[1][1].type = "expense"
  /\ transactions[1][2].type = "expense"
  /\ transactions[1][1].description = "150 lunch"
  /\ transactions[1][2].description = "0"
  /\ monthly_totals[1].has
  /\ monthly_totals[1].t.income # Zero

\* C5: every pending proposal and every committed transaction has an
\* amount that is at least zero.
C5_NonNegativeAmounts ==
  \A u \in Users :
    /\ pending[u].has => NumGe(pending[u].amount, Zero)
    /\ \A i \in 1..Len(transactions[u]) : NumGe(transactions[u][i].amount, Zero)

\* C6: the amount, category, kind, description and timestamp of a committed
\* transaction never change; only its id changes, by the renumbering after
\* a deletion; a transaction leaves the ledger only by a deletion in delete
\* mode or by the reset.
C6_CommittedImmutable ==
  [][\A u \in Users :
       \/ /\ Len(transactions'[u]) >= Len(transactions[u])
          /\ SubSeq(transactions'[u], 1, Len(transactions[u])) = transactions[u]
       \/ /\ delete_mode[u].state = "map"
          /\ outbox' = <<"deleted">>
          /\ \E i \in 1..Len(transactions[u]) :
               Unnumbered(transactions'[u]) = Unnumbered(Without(transactions[u], i))
       \/ /\ transactions'[u] = <<>>
          /\ outbox' = <<"restarted">>]_vars

\* a transaction of the first month is unchanged after the month changed
\* and the same text was confirmed again
C6_Kept ==
  /\ Len(transactions[1]) = 2
  /\ transactions[1][1].date = FirstMonth
  /\ transactions[1][2].date = FirstMonth + 1
  /\ transactions[1][1].description = transactions[1][2].description
  /\ transactions[1][1].id = 1

\* C7: a text without a numeric token, and an expression that is rejected
\* or fails (a character that is not allowed, a syntax error, a division by
\* zero), create no proposal and change neither the pending proposals, nor
\* the ledger, nor the category table, nor the monthly totals, nor the
\* learned patterns.
C7_NoTokenNoProposal ==
  [][\A text \in AllTexts :
       (/\ ReachesAnalysis(1, text)
        /\ ~HasDigit(text) \/ TextInfo(text).analysis.via = "error"
        /\ FirstMessage(text))
       => UNCHANGED <<pending, transactions, user_categories, monthly_totals,
                     monthly_percentages, learned_patterns, proposed>>]_vars

\* C8: one pending proposal gives at most one transaction, also when two
\* confirmations of it are handled at once on two webhook threads.
C8_AtMostOneCommit ==
  \A u \in Users : Len(transactions[u]) <= proposed[u]

\* C9: no interleaving loses a proposal: the confirmation of an earlier
\* proposal never removes the proposal that replaced it.
C9_NewProposalKept ==
  [][\A t \in ThreadIds :
       (/\ threads[t].pc = "finish"
        /\ threads'[t].pc = "idle"
        /\ pending[threads[t].u].has
        /\ ~pending'[threads[t].u].has)
       => threads[t].serial = proposed[threads[t].u]]_vars

\* the text the user sent, from the text a proposal keeps
RawText(d) ==
  LET cut == {i \in 1..Len(d) : i + 2 <= Len(d) /\ SubSeq(d, i, i + 2) = " = "}
  IN  IF cut = {} THEN d
      ELSE SubSeq(d, 1, (CHOOSE i \in cut : \A j \in cut : i <= j) - 1)

\* the kind by the rules in the claimed order
ClaimedKind(text) ==
  IF Contains(text, "++") THEN "savings"
  ELSE IF Contains(text, "+-") THEN "debt_return"
  ELSE IF Contains(text, "-+") THEN "savings_withdraw"
  ELSE IF Contains(text, "+") THEN "income"
  ELSE IF StartsWith(Strip(text), "-") THEN "debt"
  ELSE "expense"

AmendedKind(text) ==
  IF HasDigit(text) /\ (\E i \in 1..Len(text) : Ch(text, i) \in {"+", "-", "*", "/", "%"})
  THEN IF Contains(text, "++") THEN "savings"
       ELSE IF Contains(text, "+-") THEN "debt_return"
       ELSE IF Contains(text, "-+") THEN "savings_withdraw"
       ELSE IF StartsWith(Strip(text), "-") THEN "debt"
       ELSE IF Contains(text, "+") THEN "income"
       ELSE "expense"
  ELSE IF Contains(text, "+-") THEN "debt_return"
       ELSE IF Contains(text, "-+") THEN "savings_withdraw"
       ELSE IF StartsWith(Strip(text), "-") THEN "debt"
       ELSE IF Contains(text, "++") THEN "none"
       ELSE IF Contains(text, "+") THEN "income"
       ELSE "expense"

C11_DoublePlusIsSavings ==
  \A u \in Users :
    (pending[u].has /\ Contains(RawText(pending[u].text), "++"))
    => pending[u].type = "savings"

\* C12: the kind does not depend on the place of the marker: "+-50" and
\* "50+-" both give a debt_return proposal of amount 50.
C12_MarkerPlace ==
  [][\A text \in {"+-50", "50+-"} :
       FirstMessage(text)
       => /\ pending'[1].has
          /\ pending'[1].type = "debt_return"
          /\ pending'[1].amount = Int2Num(50)]_vars

\* the proposals the examples are documented to give
ExampleKind(text) ==
  CASE text = "+5000 salary" -> [type |-> "income", amount |-> Int2Num(5000)]
    [] text = "-200 loan" -> [type |-> "debt", amount |-> Int2Num(200)]
    [] text = "-100 debt" -> [type |-> "debt", amount |-> Int2Num(100)]
    [] text = "++200 savings" -> [type |-> "savings", amount |-> Int2Num(200)]

\* C13: a marker, an amount and a description word, as in the examples of
\* the bot ("+5000 salary", "-200 loan", "-100 debt", "++200 savings"), sent
\* outside delete mode and income entry, give a pending proposal of kind
\* income, debt, debt and savings with the written amount.
C13_ExamplesPropose ==
  [][\A text \in {"+5000 salary", "-200 loan", "-100 debt", "++200 savings"} :
       FirstMessage(text)
       => /\ pending'[1].has
          /\ pending'[1].type = ExampleKind(text).type
          /\ pending'[1].amount = ExampleKind(text).amount]_vars

\* the category the learned patterns d give to the word w, "" when none
LearnedCategory(d, w) ==
  IF \E k \in 1..Len(d) : d[k].word = w
  THEN d[CHOOSE k \in 1..Len(d) : d[k].word = w].category
  ELSE ""

LearnedWords(d) == {d[k].word : k \in 1..Len(d)}

\* the alphabetic tokens of at least three letters of a text
WordsOf(text) ==
  LET q == FindWords(Lower(text), 1) IN {q[k] : k \in 1..Len(q)}

\* C14: a confirmation leaves the learned patterns unchanged unless the
\* proposal is an expense and the confirmed category differs from the
\* suggested one; then every alphabetic token of at least three letters of
\* the proposal's text maps to the confirmed category, an earlier mapping
\* of it being overwritten, and the mapping of no other word changes.
C14_Learning ==
  [][\A u \in Users : \A data \in BudgetDataOf(u) :
       (/\ StartsWith(data, "cat_")
        /\ pending[u].has
        /\ ProcessCallback(u, data))
       => LET p == pending[u]
              c == SubSeq(data, 5, Len(data))
              words == WordsOf(p.text)
              others == (LearnedWords(learned_patterns)
                           \cup LearnedWords(learned_patterns')) \ words
          IN  IF p.type = "expense" /\ c # p.category
              THEN /\ \A w \in words : LearnedCategory(learned_patterns', w) = c
                   /\ \A w \in others :
                        LearnedCategory(learned_patterns', w) =
                          LearnedCategory(learned_patterns, w)
              ELSE learned_patterns' = learned_patterns]_vars

\* "lunch" was learned as Rent and then, confirmed as Savings while Rent was
\* suggested, learned as Savings; "taxi", learned from the other chat, kept
\* its category
C14_Relearned ==
  /\ Len(transactions[1]) = 2
  /\ transactions[1][1].description = "25 lunch"
  /\ transactions[1][1].category = "Rent"
  /\ transactions[1][2].description = "25 lunch"
  /\ transactions[1][2].category = "Savings"
  /\ LearnedCategory(learned_patterns, "lunch") = "Savings"
  /\ LearnedCategory(learned_patterns, "taxi") = "Rent"
  /\ outbox = <<"expense_saved">>

\* the monthly totals of chat u, zero when it has none
TotalsOf(u) == IF monthly_totals[u].has THEN monthly_totals[u].t ELSE ZeroTotals

\* the previous commit of chat u was made in the month of the clock
SameMonth(u) ==
  /\ transactions[u] # <<>>
  /\ transactions[u][Len(transactions[u])].date = clock

\* the totals t with the amount a added to the field f
Added(t, f, a) == [t EXCEPT ![f] = NumAdd(@, a)]

\* C15: within one calendar month the confirmation of a proposal that is
\* not an income adds its amount to exactly one of the totals needs, wants
\* and future and leaves the two others and the income total unchanged;
\* the confirmation of an income adds its amount to the income total only.
C15_OneTotalChanges ==
  [][\A u \in Users : \A data \in BudgetDataOf(u) :
       (/\ StartsWith(data, "cat_")
        /\ pending[u].has
        /\ SameMonth(u)
        /\ ProcessCallback(u, data))
       => /\ monthly_totals'[u].has
          /\ IF pending[u].type = "income"
             THEN monthly_totals'[u].t = Added(TotalsOf(u), "income", pending[u].amount)
             ELSE \E b \in {"needs", "wants", "future"} :
                    monthly_totals'[u].t = Added(TotalsOf(u), b, pending[u].amount)]_vars

\* C16: after every handled event, for every user that has monthly totals,
\* each stored percentage is 100 * total / income when the income total is
\* positive and 0 when it is zero.
C16_PercentagesFresh ==
  \A u \in Users :
    monthly_totals[u].has
    => /\ monthly_percentages[u].has
       /\ \A b \in {"needs", "wants", "future"} :
            monthly_percentages[u].p[b] =
              IF NumGt(monthly_totals[u].t.income, Zero)
              THEN NumDiv(NumMul(Hundred, monthly_totals[u].t[b]),
                          monthly_totals[u].t.income)
              ELSE Zero

\* an income arrived after needs of 25 had made 50 percent of an income of
\* 50: the stored percentage is 25
C16_Recomputed ==
  /\ monthly_totals[1].has
  /\ monthly_totals[1].t.income = Int2Num(100)
  /\ monthly_totals[1].t.needs = Int2Num(25)
  /\ monthly_percentages[1].p.needs = Int2Num(25)
  /\ previous_percentages[1].p.needs = Int2Num(25)
  /\ transactions[1][Len(transactions[1])].type = "income"

\* C17: a commit of any kind made in a month later than the month of the
\* user's previous budget update resets the user's four totals to zero
\* before the amount is added, for every user, whichever user's event is
\* the first of the new month.
C17_MonthReset ==
  [][\A u \in Users : \A data \in BudgetDataOf(u) :
       (/\ StartsWith(data, "cat_")
        /\ pending[u].has
        /\ transactions[u] # <<>>
        /\ transactions[u][Len(transactions[u])].date < clock
        /\ ProcessCallback(u, data))
       => IF pending[u].type = "income"
          THEN monthly_totals'[u].t = Added(ZeroTotals, "income", pending[u].amount)
          ELSE \E b \in {"needs", "wants", "future"} :
                 monthly_totals'[u].t = Added(ZeroTotals, b, pending[u].amount)]_vars

\* C18: within one calendar month each notice is sent at most once to a
\* user, for every sequence of commits of that month.
C18_NoticeOnce ==
  \A u \in Users : \A m \in Notices : noticed[u][m] <= 1

\* the stored percentage of the future total of chat u, 0 when there is none
FuturePct(u) ==
  IF monthly_percentages[u].has THEN monthly_percentages[u].p.future ELSE Zero

\* C19: the notice "excellent" is sent on the commit that first brings the
\* future percentage of the month to 25 or more, also when the percentage
\* rises from below 20 to 25 or more in one commit.
C19_ExcellentSent ==
  [][\A u \in Users : \A data \in BudgetDataOf(u) :
       (/\ StartsWith(data, "cat_")
        /\ pending[u].has
        /\ TotalsOf(u).future = Zero
        /\ NumLt(FuturePct(u), Int2Num(20))
        /\ ProcessCallback(u, data)
        /\ NumGe(monthly_percentages'[u].p.future, Int2Num(25)))
       => InSeq(outbox', "future_excellent")]_vars

\* the recommended range for a confirmed income a
RecommendedRange(a) ==
  IF NumGt(a, Int2Num(100000))
  THEN Format0f(NumDiv(NumMul(a, Int2Num(10)), Hundred)) \o " - "
         \o Format0f(NumDiv(NumMul(a, Int2Num(15)), Hundred))
  ELSE Format0f(NumDiv(NumMul(a, Int2Num(15)), Hundred)) \o " - "
         \o Format0f(NumDiv(NumMul(a, Int2Num(20)), Hundred))

TableOf(u) == get_user_categories(Self, u).user_categories[u]

\* the remove-category requests that name "Other" or a protected category
ProtectedRemovals == {"-Crypto", "-Other", "- Bank"}

\* C21: a remove-category request that names "Other" or a protected savings
\* category fails and leaves the category table of the user as it was,
\* whether or not the name is a key of the table
C21_ProtectedKept ==
  [][\A text \in ProtectedRemovals :
       ProcessMessage(1, text) =>
         /\ TableOf(1)' = TableOf(1)
         /\ outbox' = <<"category_not_removed">>]_vars

\* a protected name that was added is refused and still in the table
C21_AddedProtectedRefused ==
  /\ HasCategory(user_categories[1], "Crypto")
  /\ outbox = <<"category_not_removed">>

\* chat u is in delete mode
InDeleteMode(u) == delete_mode[u].state = "map"

\* the reply names a line of the delete list of chat u
Listed(u, text) ==
  /\ IsDigitStr(text)
  /\ DigitsVal(text, 1, Len(text) + 1) \in 1..Len(delete_mode[u].map)
  /\ delete_mode[u].map[DigitsVal(text, 1, Len(text) + 1)] < Len(transactions[u])

\* the ledger of chat u loses the transaction the reply is mapped to
DeletesListed(u, text) ==
  Unnumbered(transactions'[u]) =
    Unnumbered(Without(transactions[u],
                       delete_mode[u].map[DigitsVal(text, 1, Len(text) + 1)] + 1))

\* C22 as claimed: in delete mode the reply "0" exits the mode with the
\* ledger unchanged, any other digit-only reply deletes the mapped
\* transaction and exits the mode, any other reply exits the mode with the
\* ledger unchanged; the reply is never handled as a transaction text.
C22_ReplyExits ==
  [][\A text \in DeleteTexts :
       (InDeleteMode(1) /\ ProcessMessage(1, text))
       => /\ ~InDeleteMode(1)'
          /\ pending' = pending
          /\ proposed' = proposed
          /\ IF IsDigitStr(text) /\ text # "0"
             THEN Len(transactions'[1]) = Len(transactions[1]) - 1
             ELSE transactions' = transactions]_vars

\* C22 amended: in delete mode the reply "0" and every reply that is not
\* digit-only exit the mode with the ledger unchanged; a digit-only reply
\* that is a number of the list deletes the mapped transaction and exits
\* the mode; any other digit-only reply is answered with "invalid number"
\* and changes nothing, the mode stays on. The reply is never handled as a
\* transaction text.
C22_ReplyHandled ==
  [][\A text \in DeleteTexts :
       (InDeleteMode(1) /\ ProcessMessage(1, text))
       => /\ pending' = pending
          /\ proposed' = proposed
          /\ IF text = "0" \/ ~IsDigitStr(text)
             THEN ~InDeleteMode(1)' /\ transactions' = transactions
             ELSE IF Listed(1, text)
             THEN ~InDeleteMode(1)' /\ DeletesListed(1, text)
             ELSE /\ UNCHANGED BotFields
                  /\ outbox' = <<"invalid_number">>]_vars

\* a number that is not in the list was refused and the mode is still on
C22_InvalidKept ==
  /\ InDeleteMode(1)
  /\ outbox = <<"invalid_number">>

\* C23: a chat never has an active delete-mode map and a pending proposal
\* at the same time, and no confirmation is committed to the ledger of a
\* chat that is in delete mode.
C23_Exclusive ==
  [][\A u \in Users :
       /\ ~(InDeleteMode(u)' /\ pending'[u].has)
       /\ InDeleteMode(u) => Len(transactions'[u]) <= Len(transactions[u])]_vars

\* C24: after a confirmed reset the ledger of the chat is empty, its income
\* figure is absent, its category table holds only "Other", it has no
\* pending proposal, no income-entry mode and no delete-mode map, its
\* monthly totals and percentages are zero, and its language is kept.
C24_ResetClears ==
  [][\A u \in Users :
       ProcessCallback(u, "confirm_restart")
       => /\ transactions'[u] = <<>>
          /\ ~user_incomes'[u].has
          /\ TableOf(u)' = DefaultCategories
          /\ ~pending'[u].has
          /\ u \notin pending_income'
          /\ ~InDeleteMode(u)'
          /\ monthly_totals'[u].has => monthly_totals'[u].t = ZeroTotals
          /\ monthly_percentages'[u].has => monthly_percentages'[u].p = ZeroPct
          /\ user_languages'[u] = user_languages[u]]_vars

\* C25: a restart of the process keeps the learned patterns, so the
\* category suggested for a text is the same before and after the restart.
C25_LearnedSurvive ==
  [][ProcessRestart
     => /\ learned_patterns' = learned_patterns
        /\ \A text \in CategoryTexts :
             guess_category(Self, Lower(text), 1)' = guess_category(Self, Lower(text), 1)]_vars

\* chat u is a new user: nothing is learned, its ledger is empty, its
\* category table is the default one and it is in no mode
NewUser(u) ==
  /\ learned_patterns = <<>>
  /\ transactions[u] = <<>>
  /\ TableOf(u) = DefaultCategories
  /\ ~InDeleteMode(u)
  /\ u \notin pending_income

\* C26: for a new user the text "150 lunch" produces the pending proposal
\* of amount 150, kind expense and category "Food"; confirming it with
\* "Food" yields a ledger whose single transaction has id 1, amount 150,
\* kind expense and category "Food".
C26_LunchScenario ==
  [][\A u \in Users :
       /\ (NewUser(u) /\ ProcessMessage(u, "150 lunch"))
          => /\ pending'[u].has
             /\ pending'[u].amount = Int2Num(150)
             /\ pending'[u].type = "expense"
             /\ pending'[u].category = "Food"
       /\ (/\ NewUser(u)
           /\ pending[u].has
           /\ pending[u].text = "150 lunch"
           /\ ProcessCallback(u, "cat_Food"))
          => /\ Len(transactions'[u]) = 1
             /\ transactions'[u][1].id = 1
             /\ transactions'[u][1].amount = Int2Num(150)
             /\ transactions'[u][1].type = "expense"
             /\ transactions'[u][1].category = "Food"]_vars

\* the totals of chat u in the month of the clock: the stored totals when
\* the month marker names that month, zero otherwise
CurrentTotals(u) ==
  IF monthly_totals[u].has /\ current_month = clock
  THEN monthly_totals[u].t ELSE ZeroTotals

\* C27: confirming the proposal of "++300" with a protected savings
\* category commits a transaction of kind savings and adds exactly 300 to
\* the future total of the current month; the needs and wants totals of
\* the month are as before.
C27_SavingsToFuture ==
  [][\A k \in 1..Len(protected_savings_categories) :
       (/\ pending[1].has
        /\ pending[1].text = TextInfo("++300").analysis.text
        /\ ProcessCallback(1, "cat_" \o protected_savings_categories[k]))
       => /\ Len(transactions'[1]) = Len(transactions[1]) + 1
          /\ transactions'[1][Len(transactions'[1])].type = "savings"
          /\ transactions'[1][Len(transactions'[1])].amount = Int2Num(300)
          /\ CurrentTotals(1)'.future = NumAdd(CurrentTotals(1).future, Int2Num(300))
          /\ CurrentTotals(1)'.needs = CurrentTotals(1).needs
          /\ CurrentTotals(1)'.wants = CurrentTotals(1).wants]_vars

\* a second saving was confirmed with "Personal" in a month with needs and
\* wants
C27_SecondSaving ==
  /\ outbox = <<"savings_saved">>
  /\ transactions[1] # <<>>
  /\ transactions[1][Len(transactions[1])].category = "Personal"
  /\ transactions[1][Len(transactions[1])].type = "savings"
  /\ current_month = clock
  /\ monthly_totals[1].t.future = Int2Num(600)
  /\ monthly_totals[1].t.needs = Int2Num(45)

\* the share of a total in the income, in percent; 0 without an income
PercentOf(total, income) ==
  IF NumGt(income, Zero) THEN NumMul(NumDiv(total, income), Hundred) ELSE Zero

\* the percentage was below the threshold and is now at least the threshold
Crossed(before, now, threshold) ==
  NumLt(before, Int2Num(threshold)) /\ NumGe(now, Int2Num(threshold))

\* C29: on a commit the "over budget" notice of the needs (wants) is sent
\* if and only if the percentage was below 50 (30) at the previous check and
\* is at least 50 (30) now; the "approaching" notice if and only if it was
\* below 45 (27) and is now in [45, 50) ([27, 30)); a commit that moves no
\* percentage across a threshold sends no notice, and no notice is sent
\* while the income total of the month is 0. The percentages of a check
\* are the previous ones of the next check.
C29_NoticesOnCrossings ==
  [][\A data \in NoticeData :
       (pending[1].has /\ ProcessCallback(1, data))
       => LET before == IF previous_percentages[1].has
                        THEN previous_percentages[1].p ELSE ZeroPct
              t == monthly_totals'[1].t
              needs == PercentOf(t.needs, t.income)
              wants == PercentOf(t.wants, t.income)
              future == PercentOf(t.future, t.income)
              Sent(m) == InSeq(outbox', m)
          IN  /\ Sent("needs_over") <=> Crossed(before.needs, needs, 50)
              /\ Sent("needs_approaching")
                   <=> Crossed(before.needs, needs, 45) /\ NumLt(needs, Int2Num(50))
              /\ Sent("wants_over") <=> Crossed(before.wants, wants, 30)
              /\ Sent("wants_approaching")
                   <=> Crossed(before.wants, wants, 27) /\ NumLt(wants, Int2Num(30))
              /\ (\E m \in Notices : Sent(m))
                   => \/ Crossed(before.needs, needs, 45) \/ Crossed(before.needs, needs, 50)
                      \/ Crossed(before.wants, wants, 27) \/ Crossed(before.wants, wants, 30)
                      \/ Crossed(before.future, future, 20)
                      \/ Crossed(before.future, future, 25)
              /\ t.income = Zero => ~\E m \in Notices : Sent(m)
              /\ previous_percentages'[1] =
                   [has |-> TRUE, p |-> [needs |-> needs, wants |-> wants, future |-> future]]]_vars

\* the needs reached 45 percent at one commit and 50 percent at a later
\* one of the month: both notices were sent, "over budget" just now
C29_ApproachedThenOver ==
  /\ noticed[1]["needs_approaching"] = 1
  /\ noticed[1]["needs_over"] = 1
  /\ InSeq(outbox, "needs_over")
  /\ monthly_totals[1].t.income = Int2Num(100)

\* the expenses among the texts of the category specification
ExpenseTexts == {"20 lunch", "20 taxi lunch", "20 lunch taxi"}

\* the least element of a non-empty set of numbers
Least(ks) == CHOOSE k \in ks : \A j \in ks : k <= j

\* the category the classifier is claimed to return for the text of chat u
Classified(u, text) ==
  LET learned == {k \in 1..Len(learned_patterns) :
                    Contains(Lower(text), learned_patterns[k].word)}
      table == TableOf(u)
      hits == {k \in 1..Len(table) :
                 /\ table[k].name # "Other"
                 /\ \E j \in 1..Len(table[k].keywords) :
                      Contains(Lower(text), table[k].keywords[j])}
  IN  IF learned # {} THEN learned_patterns[Least(learned)].category
      ELSE IF hits # {} THEN table[Least(hits)].name
      ELSE "Other"

\* C30: the category suggested for an expense is the category of the first
\* learned word, in insertion order, that occurs in the lower-cased text;
\* without one, the first category of the table of the user other than
\* "Other" that has a keyword occurring in the text; otherwise "Other".
C30_Classifier ==
  [][\A text \in ExpenseTexts :
       ProcessMessage(1, text)
       => /\ pending'[1].has
          /\ pending'[1].text = text
          /\ pending'[1].category = Classified(1, text)]_vars

\* "lunch" was learned before "taxi" and with another category, and the
\* table has keywords for both: "20 taxi lunch" gets the category of "lunch"
C30_FirstLearnedWins ==
  /\ pending[1].has
  /\ pending[1].text = "20 taxi lunch"
  /\ Len(learned_patterns) = 2
  /\ learned_patterns[1].word = "lunch"
  /\ learned_patterns[2].category # learned_patterns[1].category
  /\ pending[1].category = learned_patterns[1].category
  /\ KeywordMatch(user_categories[1], "20 taxi lunch", 1) \notin {"Other", pending[1].category}

\* C28: one entry into delete mode leads to at most one deleted
\* transaction, and only the transaction the user selected is deleted,
\* also when two digit replies are handled on separate threads: while the
\* map of an entry is active at most one of the transactions it lists is
\* gone from the ledger, and a step that shortens the ledger removes
\* exactly the transaction a number of the list is mapped to.
C28_SingleShot ==
  [][\A u \in ConcUsers :
       /\ InDeleteMode(u)'
          => Len(transactions'[u]) >= Len(delete_mode'[u].map) - 1
       /\ Len(transactions'[u]) < Len(transactions[u])
          => /\ InDeleteMode(u)
             /\ \E k \in 1..Len(delete_mode[u].map) :
                  /\ delete_mode[u].map[k] < Len(transactions[u])
                  /\ Unnumbered(transactions'[u]) =
                       Unnumbered(Without(transactions[u], delete_mode[u].map[k] + 1))]_vars

\* map sends the display numbers 1..N one-to-one onto the ledger positions
\* 0..N-1
NumbersAllOf(map, N) ==
  /\ Len(map) = N
  /\ {map[k] : k \in 1..Len(map)} = 0..(N - 1)

\* C31: the delete command with N >= 1 transactions stores a map that
\* sends the display numbers 1..N one-to-one onto the ledger positions
\* 0..N-1, and with no transaction the mode is not entered; while the mode
\* is on the map and the N transactions it lists stay as they were at entry,
\* also when a confirmation appends a transaction, so the reply k removes
\* the transaction that was listed under k when the mode was entered.
C31_StableNumbers ==
  [][/\ (~InDeleteMode(1) /\ ProcessMessage(1, CMD_DELETE))
        => IF transactions[1] = <<>>
           THEN ~InDeleteMode(1)' /\ outbox' = <<"nothing_to_delete">>
           ELSE /\ InDeleteMode(1)'
                /\ NumbersAllOf(delete_mode'[1].map, Len(transactions[1]))
                /\ transactions' = transactions
     /\ (InDeleteMode(1) /\ InDeleteMode(1)')
        => /\ delete_mode'[1] = delete_mode[1]
           /\ Len(delete_mode[1].map) <= Len(transactions'[1])
           /\ SubSeq(transactions'[1], 1, Len(delete_mode[1].map))
                = SubSeq(transactions[1], 1, Len(delete_mode[1].map))
     /\ \A text \in DeleteTexts :
          (/\ InDeleteMode(1)
           /\ IsDigitStr(text)
           /\ DigitsVal(text, 1, Len(text) + 1) \in 1..Len(delete_mode[1].map)
           /\ ProcessMessage(1, text))
          => /\ Listed(1, text)
             /\ DeletesListed(1, text)
             /\ outbox' = <<"deleted">>]_vars

\* the list was made of two transactions, the income first, and a
\* confirmation has appended a third one while the mode is on
C31_CommitInBetween ==
  /\ InDeleteMode(1)
  /\ delete_mode[1].map = <<1, 0>>
  /\ Len(transactions[1]) = 3
  /\ ~pending[1].has

\* C32: with one event handled at a time a pending proposal stays in its
\* slot unchanged through menu commands, category commands, the income
\* entry, entering and leaving delete mode, texts without amount, failing
\* expressions and the passing of the months; it leaves the slot only by a
\* confirmation, which commits it however late it comes, by a text that
\* yields a new proposal, or by a confirmed reset.
C32_ProposalWaits ==
  [][pending[1].has
     => /\ pending'[1] # pending[1]
           => \/ \E data \in EventData : ProcessCallback(1, data)
              \/ \E text \in EventTexts :
                   /\ ReachesAnalysis(1, text)
                   /\ YieldsProposal(text)
                   /\ ProcessMessage(1, text)
        /\ ProcessCallback(1, "cat_Food")
           => LET N == Len(transactions[1])
              IN  /\ ~pending'[1].has
                  /\ Len(transactions'[1]) = N + 1
                  /\ transactions'[1][N + 1].amount = pending[1].amount
                  /\ transactions'[1][N + 1].type = pending[1].type
                  /\ transactions'[1][N + 1].description = pending[1].text
                  /\ transactions'[1][N + 1].date = clock]_vars

\* the proposal was written in the first month; since then the chat has
\* entered the income entry, where a text was refused, and the delete mode,
\* a category was added, and the month has changed
C32_StillWaiting ==
  /\ pending[1].has
  /\ pending[1].text = "150 lunch"
  /\ 1 \in pending_income
  /\ InDeleteMode(1)
  /\ HasCategory(user_categories[1], "Cafe")
  /\ clock = MaxMonth

\* what the bot keeps for chat u alone
OwnFields(u) ==
  <<transactions[u], pending[u], delete_mode[u], user_categories[u],
    user_incomes[u], monthly_totals[u], monthly_percentages[u]>>

\* the step is a step of a handler of an event of chat a
EventOf(a) ==
  \/ \E text \in UsersTextsOf(a) : ThreadMessage(a, text)
  \/ \E t \in ThreadIds, data \in UsersData : ThreadCheck(t, a, data)
  \/ \E t \in ThreadIds :
       /\ threads[t].pc # "idle"
       /\ threads[t].u = a
       /\ ThreadRead(t) \/ ThreadCommit(t) \/ ThreadBudget(t) \/ ThreadFinish(t)

\* C33: every step of a handler of an event of chat a leaves the ledger,
\* the pending proposal, the delete-mode map, the category table, the
\* income figure and the monthly totals and percentages of every other
\* chat b as they were, however the handlers of the two chats interleave.
C33_OtherChatUntouched ==
  [][\A a \in Users : \A b \in Users \ {a} :
       EventOf(a) => OwnFields(b)' = OwnFields(b)]_vars

\* two confirmations are in flight: the one of the first chat was counted
\* in the budget in the first month, the one of the second chat in the
\* second month, which moved the month marker
C33_BothInFlight ==
  /\ \E t \in ThreadIds : threads[t].pc = "finish" /\ threads[t].u = 1
  /\ \E t \in ThreadIds : threads[t].pc = "finish" /\ threads[t].u = 2
  /\ transactions[1][1].date = FirstMonth
  /\ transactions[2][1].date = MaxMonth
  /\ monthly_totals[1].has
  /\ monthly_totals[2].has
  /\ current_month = MaxMonth

\* C34: the learned patterns are one mapping for all chats: a correction of
\* an expense by any chat maps the words of its text to the confirmed
\* category, and the category suggested to any chat for a later expense
\* text is the category of the first learned word that occurs in it,
\* whoever taught it, before the category table of that chat is looked at.
C34_SharedLearning ==
  [][/\ \A t \in ThreadIds :
          (/\ threads[t].pc = "commit"
           /\ threads[t].p.type = "expense"
           /\ threads[t].p.category # threads[t].category
           /\ ThreadCommit(t))
          => \A w \in WordsOf(threads[t].p.text) :
               LearnedCategory(learned_patterns', w) = threads[t].category
     /\ \A b \in Users : \A text \in UsersTextsOf(b) :
          (ReachesAnalysis(b, text) /\ ThreadMessage(b, text))
          => /\ pending'[b].has
             /\ pending'[b].text = text
             /\ pending'[b].category = Classified(b, text)
             /\ \A w \in WordsOf(text) \cap LearnedWords(learned_patterns) :
                  pending'[b].category = LearnedCategory(learned_patterns, w)]_vars

\* the first chat has confirmed nothing and its table has "lunch" as a
\* keyword of "Cafe"; its first expense "20 lunch" is proposed as "Food",
\* which the second chat confirmed for its own "20 lunch"
C34_TaughtByOther ==
  /\ proposed[1] = 1
  /\ transactions[1] = <<>>
  /\ pending[1].has
  /\ pending[1].text = "20 lunch"
  /\ pending[1].category = "Food"
  /\ KeywordMatch(user_categories[1], "20 lunch", 1) = "Cafe"
  /\ transactions[2] # <<>>
  /\ transactions[2][1].description = "20 lunch"
  /\ transactions[2][1].category = "Food"

\* the text after the spaces are removed, the percentages rewritten and the
\* runs of signs collapsed
Rewritten(text) == CollapseSigns(PercentSub(Lower(Replace(text, " ", ""))))

C36_DeletionKeepsBudget ==
  [][\A u \in Users : \A text \in TextsOf(u) :
       (InDeleteMode(u) /\ Listed(u, text) /\ ProcessMessage(u, text))
       => /\ DeletesListed(u, text)
          /\ monthly_totals' = monthly_totals
          /\ monthly_percentages' = monthly_percentages
          /\ previous_percentages' = previous_percentages
          /\ current_month' = current_month
          /\ UNCHANGED <<learned_patterns, pending, user_incomes, pending_income,
                         user_categories, user_languages>>]_vars

\* the only transaction of the chat, an expense of 150, was deleted in the
\* month of its commit and is still counted in the totals of that month
C36_StillCounted ==
  /\ outbox = <<"deleted">>
  /\ transactions[1] = <<>>
  /\ proposed[1] = 1
  /\ monthly_totals[1].has
  /\ current_month = clock
  /\ \E bucket \in Buckets : monthly_totals[1].t[bucket] = Int2Num(150)

\* C37: a confirmation commits the proposal that is in the slot when it is
\* handled: the transaction takes its amount, kind and description from
\* that proposal and its category from the data of the pressed button,
\* whatever category and kind the proposal has, and an amount that is not
\* an income is counted in the bucket of the category of the button.
C37_ButtonOfAnyPrompt ==
  [][\A data \in SavingsData :
       (pending[1].has /\ ProcessCallback(1, data))
       => LET N == Len(transactions[1])
              p == pending[1]
              category == SubSeq(data, 5, Len(data))
              bucket == categorize_transaction(category, p.text)
          IN  /\ Len(transactions'[1]) = N + 1
              /\ transactions'[1][N + 1].amount = p.amount
              /\ transactions'[1][N + 1].type = p.type
              /\ transactions'[1][N + 1].description = p.text
              /\ transactions'[1][N + 1].category = category
              /\ ~pending'[1].has
              /\ p.type # "income"
                 => /\ CurrentTotals(1)'[bucket] = NumAdd(CurrentTotals(1)[bucket], p.amount)
                    /\ \A other \in Buckets \ {bucket} :
                         CurrentTotals(1)'[other] = CurrentTotals(1)[other]]_vars

\* "45 rent" was proposed and then replaced by "++300"; the savings were
\* confirmed with the button "Rent" and are counted as a need
C37_SavingsAsRent ==
  /\ proposed[1] = 2
  /\ Len(transactions[1]) = 1
  /\ ~pending[1].has
  /\ transactions[1][1].type = "savings"
  /\ transactions[1][1].amount = Int2Num(300)
  /\ transactions[1][1].category = "Rent"
  /\ monthly_totals[1].has
  /\ monthly_totals[1].t.needs = Int2Num(300)
  /\ monthly_totals[1].t.future = Zero

====
